---------------------------- MODULE Spec2Model ----------------------------
(***************************************************************************)
(* Model of scripts/standalone_stock_ingest.py: the sqlite persistence     *)
(* layer (one upsert per record kind, keyed by natural key), the price     *)
(* pagination loop of KisClient.fetch_price_rows, and the run_ingest       *)
(* orchestration with its run ledger.                                      *)
(*                                                                         *)
(* Data abstraction.  A table is the sequence of its rows in rowid order.  *)
(* Timestamps produced by now_iso() (updated_at, collected_at, started_at, *)
(* finished_at) are not modelled.  The five numeric columns of a candle    *)
(* (open, high, low, close, volume) are carried as one value `ohlcv`.      *)
(* A date string is a record [k, d]: k is its textual form and d its day   *)
(* number.  SQL NULL / Python None is NULL for text, NoDate for dates and  *)
(* NullRate for the margin rate.                                           *)
(***************************************************************************)
EXTENDS Integers, Sequences, FiniteSets, TLC

VARIABLES
    disk,       \* the committed content of the sqlite file
    work,       \* the content seen by the connection holding the write transaction
    writer,     \* run id of the connection with an open write transaction, 0 if none
    supplied,   \* history: per instrument code, the last non-null value supplied per field
    fetch,      \* fetch_price_rows: its locals, and the requests sent and answers received
    args,       \* run_ingest: the parsed command line and the credentials of the environment
    pc,         \* run_ingest: the statement the run is at
    run_id,     \* run_ingest: the identifier generated for the run
    symbols,    \* run_ingest: the resolved working set
    idx,        \* run_ingest: position of the current stage's loop over symbols
    row,        \* run_ingest: the in-memory run record
    notes,      \* run_ingest: the accumulated notes
    status,     \* run_ingest: local status
    error_message,  \* run_ingest: local error message
    exit_code,  \* run_ingest: returned exit code, NULL while running
    today,      \* the UTC date today() gives the current run, as a day number
    raised,     \* history: the stage an exception escaped from and its message
    calls,      \* history: the stage of each provider call of the current run, in order
    tape        \* history: the providers' answers, recorded for a later replay

storeVars == <<disk, work, writer, supplied>>

fetchVars == <<fetch>>

runVars ==
    <<args, pc, run_id, symbols, idx, row, notes, status, error_message, exit_code, today,
      raised, calls, tape>>

vars == <<storeVars, fetchVars, runVars>>

-----------------------------------------------------------------------------
(* Values *)

NULL == "NULL"

\* No exception has escaped.
NotRaised == [stage |-> NULL, msg |-> NULL]

NullRate == -1

NoDate == [k |-> "none", d |-> 0]

EmptyDate == [k |-> "empty", d |-> 0]

BadDate == [k |-> "bad", d |-> 0]

Ymd(d) == [k |-> "ymd", d |-> d]

Iso(d) == [k |-> "iso", d |-> d]

\* to_yyyymmdd: None and "" give None; an 8-digit string is kept; the forms
\* %Y-%m-%d, %Y/%m/%d and ISO timestamps are reformatted; anything else is None.
to_yyyymmdd(value) ==
    CASE value.k = "ymd" -> value
      [] value.k = "iso" -> Ymd(value.d)
      [] OTHER -> NoDate

\* to_iso_date: the YYYY-MM-DD form of to_yyyymmdd(value), None when that is None.
to_iso_date(value) ==
    LET ymd == to_yyyymmdd(value)
    IN  IF ymd = NoDate THEN NoDate ELSE Iso(ymd.d)

\* The UTC date at the start of a behaviour, as a day number.
Today == 9

\* Numerals a provider sends, with the float they parse to, in tenths.
FloatTable == ("10" :> 100) @@ ("11" :> 110) @@ ("99.9" :> 999) @@ ("100" :> 1000)

\* Python's float(text): raises ValueError on text that is no numeral.
float_raises(text) == text \notin DOMAIN FloatTable

float(text) == FloatTable[text]

\* SQL COALESCE(a, b) for a column whose null is `null`.
COALESCE(a, b, null) == IF a # null THEN a ELSE b

-----------------------------------------------------------------------------
(* Persistence layer *)

EmptyStore ==
    [ ingest_runs               |-> <<>>,
      symbol_universe           |-> <<>>,
      raw_price_ohlcv           |-> <<>>,
      raw_fundamental_statement |-> <<>>,
      raw_event_feed            |-> <<>>,
      symbol_margin_policy      |-> <<>> ]

\* The natural keys: PRIMARY KEY / UNIQUE constraints of SCHEMA_SQL.
SymbolKey(r) == r.stock_code

PriceKey(r) == <<r.stock_code, r.timeframe, r.candle_at, r.source>>

FundamentalKey(r) ==
    <<r.stock_code, r.report_type, r.period_yyyymm, r.item_key, r.source, r.source_key>>

EventKey(r) == <<r.source, r.source_event_id>>

MarginKey(r) == <<r.stock_code, r.as_of>>

\* Position of the row whose key is k, keys being the keys of a table's rows in
\* rowid order; 0 when there is none.
RowAt(keys, k) ==
    IF \E i \in 1..Len(keys) : keys[i] = k
    THEN CHOOSE i \in 1..Len(keys) : keys[i] = k
    ELSE 0

\* INSERT ... ON CONFLICT(stock_code) DO UPDATE SET col = COALESCE(excluded.col, col)
upsert_symbol_overwriting(conn, rec) ==
    LET new == [ stock_code     |-> rec.stock_code,
                 name           |-> rec.name,
                 market         |-> rec.market,
                 dart_corp_code |-> rec.dart_corp_code,
                 listed_date    |-> to_iso_date(rec.listed_date) ]
        tbl == conn.symbol_universe
        i   == RowAt([j \in 1..Len(tbl) |-> SymbolKey(tbl[j])], new.stock_code)
    IN  IF i = 0
        THEN [conn EXCEPT !.symbol_universe = Append(tbl, new)]
        ELSE [conn EXCEPT !.symbol_universe[i] = new]

upsert_symbol(conn, rec) ==
    LET new == [ stock_code     |-> rec.stock_code,
                 name           |-> rec.name,
                 market         |-> rec.market,
                 dart_corp_code |-> rec.dart_corp_code,
                 listed_date    |-> to_iso_date(rec.listed_date) ]
        tbl == conn.symbol_universe
        i   == RowAt([j \in 1..Len(tbl) |-> SymbolKey(tbl[j])], new.stock_code)
    IN  IF i = 0
        THEN [conn EXCEPT !.symbol_universe = Append(tbl, new)]
        ELSE [conn EXCEPT !.symbol_universe[i] =
                [ stock_code     |-> tbl[i].stock_code,
                  name           |-> COALESCE(new.name, tbl[i].name, NULL),
                  market         |-> COALESCE(new.market, tbl[i].market, NULL),
                  dart_corp_code |-> COALESCE(new.dart_corp_code, tbl[i].dart_corp_code, NULL),
                  listed_date    |-> COALESCE(new.listed_date, tbl[i].listed_date, NoDate) ]]

\* float(row.get(col, 0) or 0) raises ValueError on a non-numeric string.
BadNum == "n/a"

\* upsert_price raises when the candle date is storable and a number is not.
upsert_price_raises(rec) ==
    /\ to_iso_date(rec.candle_at) # NoDate
    /\ rec.ohlcv # ""
    /\ float_raises(rec.ohlcv)

\* upsert_price: no write when the candle date does not parse; otherwise
\* INSERT ... ON CONFLICT(stock_code, timeframe, candle_at, source) DO UPDATE.
upsert_price_inserting(conn, rid, rec, as_of) ==
    IF to_iso_date(rec.candle_at) = NoDate THEN conn
    ELSE [conn EXCEPT !.raw_price_ohlcv = Append(@,
            [ run_id |-> rid, stock_code |-> rec.symbol, timeframe |-> rec.timeframe,
              candle_at |-> to_iso_date(rec.candle_at),
              ohlcv |-> IF rec.ohlcv = "" THEN 0 ELSE float(rec.ohlcv),
              source |-> rec.provider, as_of |-> as_of, raw_payload |-> rec.raw ])]

upsert_price(conn, rid, rec, as_of) ==
    LET candle_at == to_iso_date(rec.candle_at)
        new == [ run_id      |-> rid,
                 stock_code  |-> rec.symbol,
                 timeframe   |-> rec.timeframe,
                 candle_at   |-> candle_at,
                 ohlcv       |-> IF rec.ohlcv = "" THEN 0 ELSE float(rec.ohlcv),
                 source      |-> rec.provider,
                 as_of       |-> as_of,
                 raw_payload |-> rec.raw ]
        tbl == conn.raw_price_ohlcv
        i   == RowAt([j \in 1..Len(tbl) |-> PriceKey(tbl[j])], PriceKey(new))
    IN  IF candle_at = NoDate THEN conn
        ELSE IF i = 0
        THEN [conn EXCEPT !.raw_price_ohlcv = Append(tbl, new)]
        ELSE [conn EXCEPT !.raw_price_ohlcv[i] = new]

\* upsert_fundamental: ON CONFLICT(stock_code, report_type, period_yyyymm, item_key,
\* source, source_key) DO UPDATE SET run_id, item_value, item_label, unit, currency,
\* raw_payload (report_term is not in the SET list).
upsert_fundamental(conn, rid, rec) ==
    LET new == [ run_id        |-> rid,
                 stock_code    |-> rec.symbol,
                 report_type   |-> rec.report_type,
                 period_yyyymm |-> rec.period_yyyymm,
                 report_term   |-> rec.report_term,
                 item_key      |-> rec.item_key,
                 item_label    |-> rec.item_label,
                 item_value    |-> rec.item_value,
                 unit          |-> rec.unit,
                 currency      |-> rec.currency,
                 source        |-> rec.source,
                 source_key    |-> rec.source_key,
                 raw_payload   |-> rec.raw ]
        tbl == conn.raw_fundamental_statement
        i   == RowAt([j \in 1..Len(tbl) |-> FundamentalKey(tbl[j])], FundamentalKey(new))
    IN  IF i = 0
        THEN [conn EXCEPT !.raw_fundamental_statement = Append(tbl, new)]
        ELSE [conn EXCEPT !.raw_fundamental_statement[i] =
                [new EXCEPT !.report_term = tbl[i].report_term]]

\* upsert_event with run_id left out of the DO UPDATE SET list.
upsert_event_keeping_run(conn, rid, stock_code, rec) ==
    LET new == [ run_id          |-> rid,
                 stock_code      |-> stock_code,
                 event_time      |-> rec.event_time,
                 event_type      |-> rec.event_type,
                 severity        |-> rec.severity,
                 headline        |-> rec.headline,
                 summary         |-> rec.summary,
                 source          |-> rec.source,
                 source_event_id |-> rec.source_event_id,
                 raw_payload     |-> rec.raw ]
        tbl == conn.raw_event_feed
        i   == RowAt([j \in 1..Len(tbl) |-> EventKey(tbl[j])], EventKey(new))
    IN  IF i = 0
        THEN [conn EXCEPT !.raw_event_feed = Append(tbl, new)]
        ELSE [conn EXCEPT !.raw_event_feed[i] = [new EXCEPT !.run_id = tbl[i].run_id]]

\* upsert_event: ON CONFLICT(source, source_event_id) DO UPDATE SET every other column.
upsert_event(conn, rid, stock_code, rec) ==
    LET new == [ run_id          |-> rid,
                 stock_code      |-> stock_code,
                 event_time      |-> rec.event_time,
                 event_type      |-> rec.event_type,
                 severity        |-> rec.severity,
                 headline        |-> rec.headline,
                 summary         |-> rec.summary,
                 source          |-> rec.source,
                 source_event_id |-> rec.source_event_id,
                 raw_payload     |-> rec.raw ]
        tbl == conn.raw_event_feed
        i   == RowAt([j \in 1..Len(tbl) |-> EventKey(tbl[j])], EventKey(new))
    IN  IF i = 0
        THEN [conn EXCEPT !.raw_event_feed = Append(tbl, new)]
        ELSE [conn EXCEPT !.raw_event_feed[i] = new]

\* upsert_margin_policy as a plain INSERT on a table without its UNIQUE constraint.
upsert_margin_policy_inserting(conn, rid, stock_code, as_of, m) ==
    [conn EXCEPT !.symbol_margin_policy = Append(@,
        [ run_id |-> rid, stock_code |-> stock_code, as_of |-> as_of,
          is_full_margin |-> IF m.is_full_margin THEN 1 ELSE 0,
          margin_rate_pct |-> m.margin_rate_pct, collection_status |-> m.collection_status,
          source_note |-> m.source_note ])]

\* upsert_margin_policy: ON CONFLICT(stock_code, as_of) DO UPDATE SET every other column.
upsert_margin_policy(conn, rid, stock_code, as_of, m) ==
    LET new == [ run_id            |-> rid,
                 stock_code        |-> stock_code,
                 as_of             |-> as_of,
                 is_full_margin    |-> IF m.is_full_margin THEN 1 ELSE 0,
                 margin_rate_pct   |-> m.margin_rate_pct,
                 collection_status |-> m.collection_status,
                 source_note       |-> m.source_note ]
        tbl == conn.symbol_margin_policy
        i   == RowAt([j \in 1..Len(tbl) |-> MarginKey(tbl[j])], MarginKey(new))
    IN  IF i = 0
        THEN [conn EXCEPT !.symbol_margin_policy = Append(tbl, new)]
        ELSE [conn EXCEPT !.symbol_margin_policy[i] = new]

-----------------------------------------------------------------------------
(* The store under arbitrary upserts of two connections.                    *)
(* sqlite admits one write transaction at a time: the first write of a      *)
(* connection opens it (Python's implicit BEGIN) and commit() ends it; the  *)
(* other connection's writes wait meanwhile.                                *)

Runs == {1, 2}

MaxRows == 2

\* normalize_symbol: the digits of the input, rejected (None) when there is none or
\* more than 6, else left-padded with zeros to 6.  Text is a sequence of characters.
Digits == {"0", "1", "2", "3", "4", "5", "6", "7", "8", "9"}

NoSymbol == <<>>

RECURSIVE zfill(_, _)
zfill(digits, width) ==
    IF Len(digits) >= width THEN digits ELSE zfill(<<"0">> \o digits, width)

\* normalize_symbol without the limit of 6 digits.
normalize_symbol_unbounded(value) ==
    LET digits == SelectSeq(value, LAMBDA ch : ch \in Digits)
    IN  IF digits = <<>> THEN NoSymbol ELSE zfill(digits, 6)

normalize_symbol(value) ==
    LET digits == SelectSeq(value, LAMBDA ch : ch \in Digits)
    IN  IF digits = <<>> \/ Len(digits) > 6 THEN NoSymbol ELSE zfill(digits, 6)

CodeA == normalize_symbol(<<"1">>)

CodeB == normalize_symbol(<<"2">>)

Codes == {CodeA, CodeB}

TotalRows(conn) ==
    Len(conn.symbol_universe) + Len(conn.raw_price_ohlcv)
    + Len(conn.raw_fundamental_statement) + Len(conn.raw_event_feed)
    + Len(conn.symbol_margin_policy)

CanWrite(r) == writer \in {0, r}

NothingSupplied ==
    [name |-> NULL, market |-> NULL, dart_corp_code |-> NULL, listed_date |-> NoDate]

SymbolEntry(stock_code, name, market, dart_corp_code, listed_date) ==
    [ stock_code |-> stock_code, name |-> name, market |-> market,
      dart_corp_code |-> dart_corp_code, listed_date |-> listed_date ]

\* SymbolEntry values handed to upsert_symbol: listed_date is None or 8 digits.
StoreSymbolEntries ==
    { SymbolEntry(CodeA, "Samsung", "KOSPI", NULL, Ymd(1)),
      SymbolEntry(CodeA, NULL, NULL, "00126380", NoDate),
      SymbolEntry(CodeB, NULL, NULL, NULL, NoDate) }

\* Rows as fetch_price_rows builds them.
PriceRow(symbol, timeframe, candle_at, ohlcv) ==
    [ symbol |-> symbol, timeframe |-> timeframe, candle_at |-> candle_at, ohlcv |-> ohlcv,
      provider |-> "kis", raw |-> [stck_bsop_date |-> candle_at, ohlcv |-> ohlcv] ]

StorePriceRows ==
    { PriceRow(CodeA, "D", Ymd(1), "10"), PriceRow(CodeA, "D", Iso(1), "11"),
      PriceRow(CodeA, "D", BadDate, "10"), PriceRow(CodeA, "W", Ymd(1), "10") }

\* Rows as fetch_fundamental_rows builds them.
FundamentalRow(symbol, report_type, period, term, key, value) ==
    [ symbol |-> symbol, report_type |-> report_type, period_yyyymm |-> period,
      report_term |-> term, item_key |-> key, item_label |-> key, item_value |-> value,
      unit |-> NULL, currency |-> "KRW", source |-> "kis",
      source_key |-> <<symbol, report_type, period, term, key>>,
      raw |-> [stac_yymm |-> period, key |-> key, value |-> value] ]

StoreFundamentalRows ==
    { FundamentalRow(CodeA, "RATIO", "202312", "annual", "EPS", 100),
      FundamentalRow(CodeA, "RATIO", "202312", "quarterly", "EPS", 100),
      [FundamentalRow(CodeA, "RATIO", "202312", "quarterly", "EPS", 110)
          EXCEPT !.source_key = <<CodeA, "RATIO", "202312", "annual", "EPS">>] }

\* Rows as fetch_dart_events builds them.
EventRow(rcept_no, event_time, headline) ==
    [ event_time |-> event_time, event_type |-> "dart_disclosure", severity |-> 3,
      headline |-> headline, summary |-> NULL, source |-> "dart",
      source_event_id |-> rcept_no, raw |-> [rcept_no |-> rcept_no, report_nm |-> headline] ]

StoreEventRows ==
    { EventRow("e1", Iso(1), "h1"), EventRow("e1", Iso(2), "h2"), EventRow("e2", Iso(1), "h1") }

MarginItem(rate, collection_status, note) ==
    [ is_full_margin |-> (rate # NullRate /\ rate >= 1000), margin_rate_pct |-> rate,
      collection_status |-> collection_status, source_note |-> note ]

StoreMarginItems ==
    { MarginItem(1000, "collected", "rate"), MarginItem(NullRate, "failed", "none") }

\* Values of the variables a specification does not use.
FetchIdle == fetch = <<>>

RunIdle ==
    /\ args = <<>>
    /\ pc = "idle"
    /\ run_id = 0
    /\ symbols = <<>>
    /\ idx = 0
    /\ row = <<>>
    /\ notes = <<>>
    /\ status = NULL
    /\ error_message = NULL
    /\ exit_code = NULL
    /\ today = Today
    /\ raised = NotRaised
    /\ calls = <<>>
    /\ tape = <<>>

\* The history of supplied values after one more entry was handed to upsert_symbol.
Supply(hist, e) ==
    [hist EXCEPT ![e.stock_code] =
        [ name           |-> IF e.name # NULL THEN e.name ELSE @.name,
          market         |-> IF e.market # NULL THEN e.market ELSE @.market,
          dart_corp_code |-> IF e.dart_corp_code # NULL THEN e.dart_corp_code
                             ELSE @.dart_corp_code,
          listed_date    |-> IF e.listed_date # NoDate THEN Iso(e.listed_date.d)
                             ELSE @.listed_date ]]

StoreUpsertSymbol ==
    \E r \in Runs, e \in StoreSymbolEntries :
        /\ CanWrite(r)
        /\ TotalRows(upsert_symbol(work, e)) <= MaxRows
        /\ work' = upsert_symbol(work, e)
        /\ writer' = r
        /\ supplied' = Supply(supplied, e)
        /\ UNCHANGED disk
        /\ UNCHANGED <<fetchVars, runVars>>

StoreUpsertPrice ==
    \E r \in Runs, p \in StorePriceRows, a \in {NoDate} :
        /\ CanWrite(r)
        /\ ~upsert_price_raises(p)
        /\ TotalRows(upsert_price(work, r, p, a)) <= MaxRows
        /\ work' = upsert_price(work, r, p, a)
        /\ writer' = r
        /\ UNCHANGED <<disk, supplied>>
        /\ UNCHANGED <<fetchVars, runVars>>

StoreUpsertFundamental ==
    \E r \in Runs, f \in StoreFundamentalRows :
        /\ CanWrite(r)
        /\ TotalRows(upsert_fundamental(work, r, f)) <= MaxRows
        /\ work' = upsert_fundamental(work, r, f)
        /\ writer' = r
        /\ UNCHANGED <<disk, supplied>>
        /\ UNCHANGED <<fetchVars, runVars>>

StoreUpsertEvent ==
    \E r \in Runs, c \in {CodeA}, e \in StoreEventRows :
        /\ CanWrite(r)
        /\ TotalRows(upsert_event(work, r, c, e)) <= MaxRows
        /\ work' = upsert_event(work, r, c, e)
        /\ writer' = r
        /\ UNCHANGED <<disk, supplied>>
        /\ UNCHANGED <<fetchVars, runVars>>

StoreUpsertMargin ==
    \E r \in Runs, c \in {CodeA}, a \in {Iso(4), Iso(5)}, m \in StoreMarginItems :
        /\ CanWrite(r)
        /\ TotalRows(upsert_margin_policy(work, r, c, a, m)) <= MaxRows
        /\ work' = upsert_margin_policy(work, r, c, a, m)
        /\ writer' = r
        /\ UNCHANGED <<disk, supplied>>
        /\ UNCHANGED <<fetchVars, runVars>>

\* conn.commit(): the open write transaction becomes the content of the file.
StoreCommit ==
    \E r \in Runs :
        /\ writer = r
        /\ disk' = work
        /\ writer' = 0
        /\ UNCHANGED <<work, supplied>>
        /\ UNCHANGED <<fetchVars, runVars>>

StoreInit ==
    /\ disk = EmptyStore
    /\ work = EmptyStore
    /\ writer = 0
    /\ supplied = [c \in Codes |-> NothingSupplied]
    /\ FetchIdle
    /\ RunIdle

StoreNext ==
    \/ StoreUpsertSymbol
    \/ StoreUpsertPrice
    \/ StoreUpsertFundamental
    \/ StoreUpsertEvent
    \/ StoreUpsertMargin
    \/ StoreCommit

SpecStore == StoreInit /\ [][StoreNext]_vars

\* The symbol table alone, under every combination of null and non-null fields.
AnySymbolEntries ==
    { SymbolEntry(CodeA, n, m, k, l) :
        n \in {NULL, "Samsung", "SEC"}, m \in {NULL, "KOSPI"},
        k \in {NULL, "00126380"}, l \in {NoDate, Ymd(1), Ymd(2)} }
    \cup { SymbolEntry(CodeB, NULL, "KOSDAQ", NULL, NoDate),
           SymbolEntry(CodeB, "Kakao", NULL, NULL, NoDate) }

SymbolsUpsert ==
    \E r \in Runs, e \in AnySymbolEntries :
        /\ CanWrite(r)
        /\ work' = upsert_symbol(work, e)
        /\ writer' = r
        /\ supplied' = Supply(supplied, e)
        /\ UNCHANGED disk
        /\ UNCHANGED <<fetchVars, runVars>>

SymbolsNext ==
    \/ SymbolsUpsert
    \/ StoreCommit

SpecSymbols == StoreInit /\ [][SymbolsNext]_vars

-----------------------------------------------------------------------------
(* KisClient.fetch_price_rows: date-sliding pagination *)

\* Default lookback of fetch_price_rows when date_from is None.
DefaultFromDays == 365

MaxPages == 2

Timeframes == {"D", "W", "M", "Y"}

\* One item of the provider's output list.
Candle(date, ohlcv) == [stck_bsop_date |-> date, ohlcv |-> ohlcv]

\* An answer of the provider to one page request: a transport error (raises), or a
\* body with its rt_cd and its output list (an absent list is the empty one).
Answer(raises, rt_cd, output) == [raises |-> raises, rt_cd |-> rt_cd, output |-> output]

TransportError == Answer(TRUE, "", <<>>)

\* The items of a page that carry a non-empty candle date, in the provider's order.
Dated(output) == SelectSeq(output, LAMBDA raw : raw.stck_bsop_date # EmptyDate)

\* The rows appended for one page.
PageRows(symbol, timeframe, output) ==
    LET sel == Dated(output)
    IN  [ i \in 1..Len(sel) |->
            [ symbol |-> symbol, timeframe |-> timeframe,
              candle_at |-> sel[i].stck_bsop_date, ohlcv |-> sel[i].ohlcv,
              provider |-> "kis", raw |-> sel[i] ] ]

\* The local `oldest` after the loop over a page: the candle date of the last item
\* that has one, None when no item has one.
PageOldest(output) ==
    LET sel == Dated(output)
    IN  IF sel = <<>> THEN NoDate ELSE sel[Len(sel)].stck_bsop_date

\* Python's string comparison oldest > from_date, from_date being 8 digits: day
\* order between 8-digit dates; a dashed date of the same year sorts before the
\* digits, other text is taken to sort after them.
StrGreater(oldest, from_date) ==
    CASE oldest.k = "ymd" -> oldest.d > from_date.d
      [] oldest.k = "bad" -> TRUE
      [] OTHER -> FALSE

\* datetime.strptime(oldest, "%Y%m%d") succeeds on a valid 8-digit date only.
Strptime_ok(oldest) == oldest.k = "ymd"

\* max(1, args.kis_max_price_pages)
PageCap(kis_max_price_pages) ==
    IF kis_max_price_pages > 1 THEN kis_max_price_pages ELSE 1

\* The state of fetch_price_rows before its loop.
FetchStart(symbol, timeframe, date_from, date_to, max_pages) ==
    [ symbol     |-> symbol,
      timeframe  |-> IF timeframe \in Timeframes THEN timeframe ELSE "D",
      from_date  |-> IF date_from # NoDate THEN date_from ELSE Ymd(today - DefaultFromDays),
      current_to |-> IF date_to # NoDate THEN date_to ELSE Ymd(today),
      max_pages  |-> max_pages,
      page       |-> 0,
      rows       |-> <<>>,
      st         |-> IF max_pages > 0 THEN "loop" ELSE "returned",
      requests   |-> <<>>,
      answers    |-> <<>> ]

\* One iteration of the loop whose request is answered by ans, with the loop's
\* continuation test ignoring the page cap.
PageStepUncapped(f, ans) ==
    LET sent == [f EXCEPT !.requests = Append(@, [from |-> f.from_date, to |-> f.current_to]),
                          !.answers  = Append(@, ans),
                          !.page     = @ + 1]
        got  == [sent EXCEPT !.rows = @ \o PageRows(f.symbol, f.timeframe, ans.output)]
        oldest == PageOldest(ans.output)
    IN  IF ans.raises THEN [sent EXCEPT !.st = "raised"]
        ELSE IF ans.rt_cd # "0" \/ ans.output = <<>> THEN [sent EXCEPT !.st = "returned"]
        ELSE IF oldest # NoDate /\ StrGreater(oldest, f.from_date) /\ Strptime_ok(oldest)
        THEN [got EXCEPT !.current_to = Ymd(oldest.d - 1)]
        ELSE [got EXCEPT !.st = "returned"]

\* One iteration of the loop `for _ in range(max_pages)` whose request is answered
\* by ans: st is "loop" while the loop goes on, "returned" once it has ended and
\* rows is returned, "raised" when the transport error left the function.
PageStep(f, ans) ==
    LET sent == [f EXCEPT !.requests = Append(@, [from |-> f.from_date, to |-> f.current_to]),
                          !.answers  = Append(@, ans),
                          !.page     = @ + 1]
        got  == [sent EXCEPT !.rows = @ \o PageRows(f.symbol, f.timeframe, ans.output)]
        oldest == PageOldest(ans.output)
    IN  IF ans.raises THEN [sent EXCEPT !.st = "raised"]
        ELSE IF ans.rt_cd # "0" \/ ans.output = <<>> THEN [sent EXCEPT !.st = "returned"]
        ELSE IF oldest # NoDate /\ StrGreater(oldest, f.from_date)
        THEN IF Strptime_ok(oldest)
             THEN [got EXCEPT !.current_to = Ymd(oldest.d - 1),
                              !.st = IF sent.page >= f.max_pages THEN "returned" ELSE "loop"]
             ELSE [got EXCEPT !.st = "returned"]
        ELSE [got EXCEPT !.st = "returned"]

\* Candle dates a provider may send: valid 8-digit dates, a dashed date, an empty
\* and an unparseable one.
CandleDates == {Ymd(2), Ymd(3), Ymd(4), Ymd(5), Iso(4), EmptyDate, BadDate}

Pages ==
    { <<Candle(d, "10")>> : d \in CandleDates }
    \cup { <<Candle(d, "10"), Candle(e, "10")>> : d \in CandleDates, e \in CandleDates }

PageAnswers ==
    {TransportError, Answer(FALSE, "1", <<>>), Answer(FALSE, "0", <<>>)}
    \cup { Answer(FALSE, "0", o) : o \in Pages }

FetchInit ==
    /\ RunIdle
    /\ \E date_from \in {Ymd(3), NoDate}, date_to \in {Ymd(8), NoDate},
          kis_max_price_pages \in 0..MaxPages, timeframe \in {"D", "5m"} :
          fetch = FetchStart(CodeA, timeframe, date_from, date_to, PageCap(kis_max_price_pages))
    /\ disk = EmptyStore
    /\ work = EmptyStore
    /\ writer = 0
    /\ supplied = [c \in Codes |-> NothingSupplied]

\* One page request of fetch_price_rows and the provider's answer to it.
FetchPage ==
    /\ fetch.st = "loop"
    /\ \E ans \in PageAnswers : fetch' = PageStep(fetch, ans)
    /\ UNCHANGED <<storeVars, runVars>>

FetchNext == FetchPage

SpecFetch == FetchInit /\ [][FetchNext]_vars

-----------------------------------------------------------------------------
(* run_ingest: configuration, credentials and the run ledger *)

RUN_TYPES == {"symbols", "prices", "fundamental", "financials", "events", "margins", "all"}

RUN_TYPE_TO_CATEGORIES(run_type) ==
    CASE run_type = "symbols" -> {"symbols"}
      [] run_type = "prices" -> {"prices"}
      [] run_type \in {"fundamental", "financials"} -> {"financials"}
      [] run_type = "events" -> {"events"}
      [] run_type = "margins" -> {"margins"}
      [] run_type = "all" -> {"symbols", "prices", "financials", "events", "margins"}
      [] OTHER -> {}

PRICES_WINDOWS == [fast |-> 7, normal |-> 30]

\* The floor of a full window, 1990-01-01, as a day number.
EpochFloor == Today - 12000

\* --prices-lookback-days not given (None); the counts explored are not negative.
NoDays == -1

\* The argparse namespace of the `run` command with the credentials main() reads
\* from the environment.  `symbol` is the list of --symbol values, each a sequence
\* of characters; limit_symbols is 0 when not given; the run is started with
\* --kis-max-price-pages 2.
Args(run_type, scope, symbol, source_profile, dry_run, limit_symbols, env) ==
    [ run_type |-> run_type, scope |-> scope, symbol |-> symbol,
      source_profile |-> source_profile, dry_run |-> dry_run,
      kis_app_key |-> env.KIS_APP_KEY, kis_app_secret |-> env.KIS_APP_SECRET,
      kis_account_no |-> env.KIS_ACCOUNT_NO, dart_api_key |-> env.DART_API_KEY,
      limit_symbols |-> limit_symbols, kis_max_price_pages |-> 2,
      timeframes |-> <<"D">>, as_of |-> NoDate, as_of_from |-> NoDate, as_of_to |-> NoDate,
      prices_window |-> "fast", prices_lookback_days |-> NoDays, prices_backfill |-> FALSE ]

\* ensure_exported_env: the list of missing credential names; the run is refused
\* with SetupError when it is not empty.
ensure_exported_env_ignoring_scope(a) ==
    LET categories == RUN_TYPE_TO_CATEGORIES(a.run_type)
        need_kis  == categories \cap {"prices", "financials", "margins"} # {}
                        /\ a.source_profile \in {"all", "kis"}
        need_dart == "events" \in categories /\ a.source_profile \in {"all", "dart"}
    IN  (IF ~a.dry_run /\ need_kis /\ a.kis_app_key = "" THEN <<"KIS_APP_KEY">> ELSE <<>>)
        \o (IF ~a.dry_run /\ need_kis /\ a.kis_app_secret = "" THEN <<"KIS_APP_SECRET">> ELSE <<>>)
        \o (IF ~a.dry_run /\ "margins" \in categories /\ a.source_profile \in {"all", "kis"}
               /\ a.kis_account_no = ""
            THEN <<"KIS_ACCOUNT_NO">> ELSE <<>>)
        \o (IF ~a.dry_run /\ need_dart /\ a.dart_api_key = "" THEN <<"DART_API_KEY">> ELSE <<>>)

\* ensure_exported_env with the credentials demanded of a dry run as well.
ensure_exported_env_when_dry(a) ==
    LET categories == RUN_TYPE_TO_CATEGORIES(a.run_type)
        need_kis  == categories \cap {"prices", "financials", "margins"} # {}
                        /\ a.source_profile \in {"all", "kis"}
        need_dart == a.scope = "all"
                        \/ ("events" \in categories /\ a.source_profile \in {"all", "dart"})
    IN  (IF need_kis /\ a.kis_app_key = "" THEN <<"KIS_APP_KEY">> ELSE <<>>)
        \o (IF need_kis /\ a.kis_app_secret = "" THEN <<"KIS_APP_SECRET">> ELSE <<>>)
        \o (IF "margins" \in categories /\ a.source_profile \in {"all", "kis"}
               /\ a.kis_account_no = ""
            THEN <<"KIS_ACCOUNT_NO">> ELSE <<>>)
        \o (IF need_dart /\ a.dart_api_key = "" THEN <<"DART_API_KEY">> ELSE <<>>)

ensure_exported_env(a) ==
    LET categories == RUN_TYPE_TO_CATEGORIES(a.run_type)
        need_kis  == categories \cap {"prices", "financials", "margins"} # {}
                        /\ a.source_profile \in {"all", "kis"}
        need_dart == a.scope = "all"
                        \/ ("events" \in categories /\ a.source_profile \in {"all", "dart"})
    IN  (IF ~a.dry_run /\ need_kis /\ a.kis_app_key = "" THEN <<"KIS_APP_KEY">> ELSE <<>>)
        \o (IF ~a.dry_run /\ need_kis /\ a.kis_app_secret = "" THEN <<"KIS_APP_SECRET">> ELSE <<>>)
        \o (IF ~a.dry_run /\ "margins" \in categories /\ a.source_profile \in {"all", "kis"}
               /\ a.kis_account_no = ""
            THEN <<"KIS_ACCOUNT_NO">> ELSE <<>>)
        \o (IF ~a.dry_run /\ need_dart /\ a.dart_api_key = "" THEN <<"DART_API_KEY">> ELSE <<>>)

\* kis_client is created when key and secret are both non-empty.
kis_client(a) == a.kis_app_key # "" /\ a.kis_app_secret # ""

\* One note of the run; n, m and code carry the values formatted into its text.
Note(text, n, m, code, detail) ==
    [text |-> text, n |-> n, m |-> m, code |-> code, detail |-> detail]

\* The run record at creation, with status "success" in place of "running".
NewRunRow_finished(rid, a) ==
    [ run_id |-> rid, status |-> "success", run_type |-> a.run_type, scope |-> a.scope,
      source_profile |-> a.source_profile, symbols_count |-> 0, processed_symbols |-> 0,
      symbol_rows |-> 0, price_rows |-> 0, fundamental_rows |-> 0, event_rows |-> 0,
      margin_rows |-> 0, notes_json |-> <<>>, error_message |-> NULL ]

\* The run record at creation.
NewRunRow(rid, a) ==
    [ run_id |-> rid, status |-> "running", run_type |-> a.run_type, scope |-> a.scope,
      source_profile |-> a.source_profile, symbols_count |-> 0, processed_symbols |-> 0,
      symbol_rows |-> 0, price_rows |-> 0, fundamental_rows |-> 0, event_rows |-> 0,
      margin_rows |-> 0, notes_json |-> <<>>, error_message |-> NULL ]

\* upsert_run with the row counters left out of the DO UPDATE SET list.
upsert_run_without_counters(conn, rec) ==
    LET tbl == conn.ingest_runs
        i   == RowAt([j \in 1..Len(tbl) |-> tbl[j].run_id], rec.run_id)
    IN  IF i = 0
        THEN [conn EXCEPT !.ingest_runs = Append(tbl, rec)]
        ELSE [conn EXCEPT !.ingest_runs[i] =
                [ tbl[i] EXCEPT !.status = rec.status,
                                !.processed_symbols = rec.processed_symbols,
                                !.notes_json = rec.notes_json,
                                !.error_message = rec.error_message ]]

\* upsert_run with ON CONFLICT(run_id) DO NOTHING.
upsert_run_once(conn, rec) ==
    LET tbl == conn.ingest_runs
        i   == RowAt([j \in 1..Len(tbl) |-> tbl[j].run_id], rec.run_id)
    IN  IF i = 0 THEN [conn EXCEPT !.ingest_runs = Append(tbl, rec)] ELSE conn

\* upsert_run: ON CONFLICT(run_id) DO UPDATE SET status, the progress and row
\* counters, notes_json and error_message (symbols_count is not in the SET list).
upsert_run(conn, rec) ==
    LET tbl == conn.ingest_runs
        i   == RowAt([j \in 1..Len(tbl) |-> tbl[j].run_id], rec.run_id)
    IN  IF i = 0
        THEN [conn EXCEPT !.ingest_runs = Append(tbl, rec)]
        ELSE [conn EXCEPT !.ingest_runs[i] =
                [ tbl[i] EXCEPT !.status = rec.status,
                                !.processed_symbols = rec.processed_symbols,
                                !.symbol_rows = rec.symbol_rows,
                                !.price_rows = rec.price_rows,
                                !.fundamental_rows = rec.fundamental_rows,
                                !.event_rows = rec.event_rows,
                                !.margin_rows = rec.margin_rows,
                                !.notes_json = rec.notes_json,
                                !.error_message = rec.error_message ]]

\* The locals after `except Exception as exc`, with status left at "success".
except_Exception_ignored(ns, msg) ==
    [ status |-> "success", error_message |-> NULL, notes |-> ns ]

\* The locals after `except Exception as exc`.
except_Exception(ns, msg) ==
    [ status |-> "failed", error_message |-> msg,
      notes |-> Append(ns, Note("error", 0, 0, NoSymbol, msg)) ]

\* The exit code run_ingest returns for a finalized run, always 0.
exit_code_of_zero(final_status) == 0

\* The exit code run_ingest returns for a finalized run.
exit_code_of(final_status) == IF final_status = "success" THEN 0 ELSE 1

\* parse_symbols: the --symbol values normalized, invalid ones dropped, duplicates
\* dropped, in order of first appearance.
RECURSIVE parse_symbols(_, _)
parse_symbols(raws, out) ==
    IF raws = <<>> THEN out
    ELSE LET s == normalize_symbol(Head(raws))
         IN  parse_symbols(Tail(raws),
                 IF s # NoSymbol /\ \A i \in 1..Len(out) : out[i] # s
                 THEN Append(out, s) ELSE out)

\* derive_price_range: the [from, to] window of a symbol, by precedence; the test
\* `if args.prices_lookback_days:` passes for a count that is neither None nor 0.
derive_price_range(a, sym) ==
    LET explicit_from == to_yyyymmdd(a.as_of_from)
        explicit_to   == to_yyyymmdd(a.as_of_to)
    IN  IF explicit_from # NoDate \/ explicit_to # NoDate
        THEN [from |-> explicit_from, to |-> explicit_to]
        ELSE IF a.prices_lookback_days # NoDays /\ a.prices_lookback_days # 0
        THEN [from |-> Ymd(today - a.prices_lookback_days), to |-> Ymd(today)]
        ELSE IF a.prices_window \in {"fast", "normal"}
        THEN [from |-> Ymd(today - PRICES_WINDOWS[a.prices_window]), to |-> Ymd(today)]
        ELSE IF a.prices_window = "full" \/ a.prices_backfill
        THEN [from |-> IF sym.listed_date # NoDate THEN sym.listed_date ELSE Ymd(EpochFloor),
              to |-> Ymd(today)]
        ELSE [from |-> NoDate, to |-> NoDate]

-----------------------------------------------------------------------------
(* run_ingest: the providers' answers and what the fetch functions make of them *)

\* Messages of the exceptions a run can meet.
TransportMsg == "HTTP 500"

FloatMsg == "could not convert string to float"

SingleScopeMsg == "scope=single needs --symbol or --symbols"

AllScopeMsg == "scope=all found no symbol source"

\* The value an action draws when it issues no provider call.
NoAnswer == [raises |-> FALSE]

\* fetch_stock_info and the enrichment of lines 1034-1044: market from mket_id_cd,
\* listed date when it is 8 digits, name when not empty.
StockInfo(mket_id_cd, scts_mket_lstg_dt, prdt_abrv_name) ==
    [ raises |-> FALSE,
      output |-> [ mket_id_cd |-> mket_id_cd, scts_mket_lstg_dt |-> scts_mket_lstg_dt,
                   prdt_abrv_name |-> prdt_abrv_name ] ]

\* The enrichment also filling a corporate identifier from the stock info.
Enriched_with_corp_code(sym, info) ==
    [ sym EXCEPT
        !.market = CASE info.mket_id_cd = "STK" -> "KOSPI"
                     [] info.mket_id_cd = "KSQ" -> "KOSDAQ"
                     [] OTHER -> @,
        !.listed_date = IF info.scts_mket_lstg_dt.k = "ymd" THEN info.scts_mket_lstg_dt ELSE @,
        !.name = IF info.prdt_abrv_name # "" THEN info.prdt_abrv_name ELSE @,
        !.dart_corp_code = IF info.prdt_abrv_name # "" THEN "00126380" ELSE @ ]

Enriched(sym, info) ==
    [ sym EXCEPT
        !.market = CASE info.mket_id_cd = "STK" -> "KOSPI"
                     [] info.mket_id_cd = "KSQ" -> "KOSDAQ"
                     [] OTHER -> @,
        !.listed_date = IF info.scts_mket_lstg_dt.k = "ymd" THEN info.scts_mket_lstg_dt ELSE @,
        !.name = IF info.prdt_abrv_name # "" THEN info.prdt_abrv_name ELSE @ ]

\* fetch_price_rows run to its end over the answers to its page requests.
RECURSIVE fetch_price_rows(_, _)
fetch_price_rows(f, answers) ==
    IF f.st # "loop" \/ answers = <<>> THEN f
    ELSE fetch_price_rows(PageStep(f, Head(answers)), Tail(answers))

\* The loop `for p in price_rows: upsert_price(...); row["price_rows"] += 1`:
\* the connection after it, the upserts completed, and whether one raised.
RECURSIVE upsert_prices(_, _, _, _, _)
upsert_prices(conn, rid, rows, as_of, done) ==
    IF rows = <<>> THEN [conn |-> conn, done |-> done, raised |-> FALSE]
    ELSE IF upsert_price_raises(Head(rows)) THEN [conn |-> conn, done |-> done, raised |-> TRUE]
    ELSE upsert_prices(upsert_price(conn, rid, Head(rows), as_of), rid, Tail(rows), as_of, done + 1)

\* fetch_fundamental_rows: five endpoints, annual then quarterly.
Endpoints == <<"RATIO", "BS", "IS", "GROWTH", "ETC">>

Terms == <<"annual", "quarterly">>

skip_keys == {"stac_yymm", "acml_tr_pbmn", "acml_ntin", "flet_riml_rt", "self_cptl_rt"}

\* re.fullmatch(r"\d{6}", period): a period is a sequence of characters.
period_ok(period) == Len(period) = 6 /\ \A i \in 1..Len(period) : period[i] \in Digits

\* key.upper() on the keys the provider sends.
upper(key) ==
    CASE key = "eps" -> "EPS"
      [] key = "bps" -> "BPS"
      [] OTHER -> key

\* The rows of one item of an endpoint's output: one per key that is not skipped
\* and whose value is a non-empty numeral.
ItemRows(symbol, report_type, term, item) ==
    LET kept == SelectSeq(item.fields,
                    LAMBDA kv : kv.key \notin skip_keys /\ kv.value # "" /\ ~float_raises(kv.value))
    IN  IF ~period_ok(item.stac_yymm) THEN <<>>
        ELSE [ i \in 1..Len(kept) |->
                [ symbol |-> symbol, report_type |-> report_type,
                  period_yyyymm |-> item.stac_yymm, report_term |-> term,
                  item_key |-> upper(kept[i].key), item_label |-> upper(kept[i].key),
                  item_value |-> float(kept[i].value), unit |-> NULL, currency |-> "KRW",
                  source |-> "kis",
                  source_key |-> <<symbol, report_type, item.stac_yymm, term, kept[i].key>>,
                  raw |-> item ] ]

RECURSIVE OutputRows(_, _, _, _)
OutputRows(symbol, report_type, term, output) ==
    IF output = <<>> THEN <<>>
    ELSE ItemRows(symbol, report_type, term, Head(output))
         \o OutputRows(symbol, report_type, term, Tail(output))

\* The calls k.. of fetch_fundamental_rows over the answers to them: the rows when
\* it returns, raised when a transport error left it, and the calls it issued.
RECURSIVE fetch_fundamental_rows(_, _, _, _)
fetch_fundamental_rows(symbol, answers, k, rows) ==
    IF k > Len(Endpoints) * Len(Terms) \/ k > Len(answers)
    THEN [raised |-> FALSE, rows |-> rows, ncalls |-> k - 1]
    ELSE LET ans == answers[k]
             report_type == Endpoints[((k - 1) % Len(Endpoints)) + 1]
             term == Terms[((k - 1) \div Len(Endpoints)) + 1]
         IN  IF ans.raises THEN [raised |-> TRUE, rows |-> <<>>, ncalls |-> k]
             ELSE fetch_fundamental_rows(symbol, answers, k + 1,
                     IF ans.rt_cd # "0" THEN rows
                     ELSE rows \o OutputRows(symbol, report_type, term, ans.output))

\* fetch_dart_corp_codes: one entry per node whose stock_code normalizes.
CorpNode(stock_code, corp_name, corp_code) ==
    [stock_code |-> stock_code, corp_name |-> corp_name, corp_code |-> corp_code]

RECURSIVE fetch_dart_corp_codes(_)
fetch_dart_corp_codes(nodes) ==
    IF nodes = <<>> THEN <<>>
    ELSE LET node == Head(nodes)
             stock_code == normalize_symbol(node.stock_code)
         IN  (IF stock_code = NoSymbol THEN <<>>
              ELSE << SymbolEntry(stock_code,
                                  IF node.corp_name = "" THEN NULL ELSE node.corp_name,
                                  NULL,
                                  IF node.corp_code = "" THEN NULL ELSE node.corp_code,
                                  NoDate) >>)
             \o fetch_dart_corp_codes(Tail(nodes))

\* fetch_dart_events: no row unless status is "000"; one row per item with a
\* receipt number; event_time from an 8-digit rcept_dt, else the current time.
DartItem(rcept_no, rcept_dt, report_nm, flr_nm) ==
    [rcept_no |-> rcept_no, rcept_dt |-> rcept_dt, report_nm |-> report_nm, flr_nm |-> flr_nm]

Now == [k |-> "now", d |-> 0]

RECURSIVE DartRows(_)
DartRows(items) ==
    IF items = <<>> THEN <<>>
    ELSE LET item == Head(items)
         IN  (IF item.rcept_no = "" THEN <<>>
              ELSE << [ EventRow(item.rcept_no,
                                IF item.rcept_dt.k = "ymd" THEN Iso(item.rcept_dt.d) ELSE Now,
                                IF item.report_nm = "" THEN "DART disclosure" ELSE item.report_nm)
                        EXCEPT !.summary = IF item.flr_nm = "" THEN NULL ELSE item.flr_nm,
                               !.raw = item ] >>)
             \o DartRows(Tail(items))

fetch_dart_events(ans) == IF ans.status # "000" THEN <<>> ELSE DartRows(ans.list)

\* to_float_or_none on the margin rate: None for an absent, empty or non-numeric value.
to_float_or_none(value) ==
    IF value = NULL \/ value = "" \/ float_raises(value) THEN NullRate ELSE float(value)

\* fetch_margin_rows, one symbol: the answers to the orderable-amount call (a1) and
\* to the margin call (a2, issued only when a1 succeeded), and the item appended.
MarginAnswer(a1, a2) == [raises |-> FALSE, a1 |-> a1, a2 |-> a2]

MarginCalls(ans) == IF ans.a1.raises \/ ans.a1.rt_cd # "0" THEN 1 ELSE 2

\* The item of one symbol with the classification rate > 100.0.
MarginRow_strict(symbol, ans) ==
    LET failed(message) ==
            [ symbol |-> symbol, margin_rate_pct |-> NullRate, is_full_margin |-> FALSE,
              collection_status |-> "failed", message |-> message ]
        rate == IF ans.a2.rt_cd = "0" THEN to_float_or_none(ans.a2.acmga_rt) ELSE NullRate
    IN  IF ans.a1.raises THEN failed("lookup failed: HTTP 500")
        ELSE IF ans.a1.rt_cd # "0" THEN failed(IF ans.a1.msg1 = "" THEN "lookup failed" ELSE ans.a1.msg1)
        ELSE IF ans.a2.raises THEN failed("lookup failed: HTTP 500")
        ELSE IF rate = NullRate THEN failed("no margin information")
        ELSE [ symbol |-> symbol, margin_rate_pct |-> rate, is_full_margin |-> rate > 1000,
               collection_status |-> "collected", message |-> "margin rate" ]

MarginRow(symbol, ans) ==
    LET failed(message) ==
            [ symbol |-> symbol, margin_rate_pct |-> NullRate, is_full_margin |-> FALSE,
              collection_status |-> "failed", message |-> message ]
        rate == IF ans.a2.rt_cd = "0" THEN to_float_or_none(ans.a2.acmga_rt) ELSE NullRate
    IN  IF ans.a1.raises THEN failed("lookup failed: HTTP 500")
        ELSE IF ans.a1.rt_cd # "0" THEN failed(IF ans.a1.msg1 = "" THEN "lookup failed" ELSE ans.a1.msg1)
        ELSE IF ans.a2.raises THEN failed("lookup failed: HTTP 500")
        ELSE IF rate = NullRate THEN failed("no margin information")
        ELSE [ symbol |-> symbol, margin_rate_pct |-> rate, is_full_margin |-> rate >= 1000,
               collection_status |-> "collected", message |-> "margin rate" ]

\* No call and no item when the account number is shorter than 10 characters.
fetch_margin_rows(account_no, codes, answers) ==
    IF Len(account_no) < 10 THEN <<>>
    ELSE [ i \in 1..Len(codes) |-> MarginRow(codes[i], answers[i]) ]

\* The margins loop of run_ingest: the connection after the upserts and the counts.
RECURSIVE upsert_margins(_, _, _, _, _)
upsert_margins(conn, rid, items, as_of, acc) ==
    IF items = <<>> THEN [conn |-> conn, collected |-> acc.collected, failed |-> acc.failed]
    ELSE LET item == Head(items)
             stock_code == normalize_symbol(item.symbol)
             collected == item.collection_status = "collected"
         IN  IF stock_code = NoSymbol THEN upsert_margins(conn, rid, Tail(items), as_of, acc)
             ELSE upsert_margins(
                     upsert_margin_policy(conn, rid, stock_code, as_of,
                         [ is_full_margin |-> item.is_full_margin,
                           margin_rate_pct |-> item.margin_rate_pct,
                           collection_status |-> item.collection_status,
                           source_note |-> IF item.message = "" THEN NULL ELSE item.message ]),
                     rid, Tail(items), as_of,
                     [ collected |-> acc.collected + (IF collected THEN 1 ELSE 0),
                       failed |-> acc.failed + (IF collected THEN 0 ELSE 1) ])

\* The loop `for f in f_rows: upsert_fundamental(...)`.
RECURSIVE upsert_fundamentals(_, _, _)
upsert_fundamentals(conn, rid, rows) ==
    IF rows = <<>> THEN conn
    ELSE upsert_fundamentals(upsert_fundamental(conn, rid, Head(rows)), rid, Tail(rows))

\* The loop `for event in events: upsert_event(...)`.
RECURSIVE upsert_events(_, _, _, _)
upsert_events(conn, rid, stock_code, rows) ==
    IF rows = <<>> THEN conn
    ELSE upsert_events(upsert_event(conn, rid, stock_code, Head(rows)), rid, stock_code, Tail(rows))

\* The calls fetch_margin_rows issues over the answers of its symbols.
RECURSIVE SumCalls(_)
SumCalls(answers) ==
    IF answers = <<>> THEN 0 ELSE MarginCalls(Head(answers)) + SumCalls(Tail(answers))

-----------------------------------------------------------------------------
(* run_ingest as a state machine.  A step is the body of one loop iteration  *)
(* (one symbol of one stage, with the provider calls it issues); the commit   *)
(* that follows a stage's loop belongs to the step of its last symbol.        *)

\* Answers the providers give in the runs explored.
InfoAnswers ==
    { [raises |-> TRUE],
      StockInfo("STK", Ymd(1), "Samsung"),
      StockInfo("", EmptyDate, "") }

RunPageAnswers ==
    { TransportError,
      Answer(FALSE, "0", <<Candle(Ymd(5), "10"), Candle(Ymd(4), "10")>>),
      Answer(FALSE, "0", <<Candle(Ymd(4), "11"), Candle(BadDate, "10")>>),
      Answer(FALSE, "0", <<Candle(Ymd(3), "10"), Candle(Ymd(2), BadNum)>>) }

PriceTapes(max_pages) == UNION { [1..n -> RunPageAnswers] : n \in 1..max_pages }

P2312 == <<"2", "0", "2", "3", "1", "2">>

FundItem(stac_yymm, fields) == [stac_yymm |-> stac_yymm, fields |-> fields]

FundOutput ==
    << FundItem(P2312, << [key |-> "stac_yymm", value |-> "202312"], [key |-> "eps", value |-> "10"],
                          [key |-> "bps", value |-> ""], [key |-> "name", value |-> BadNum] >>),
       FundItem(<<"2", "3">>, << [key |-> "eps", value |-> "11"] >>) >>

FundTapes ==
    { [k \in 1..(Len(Endpoints) * Len(Terms)) |-> Answer(FALSE, "1", <<>>)],
      [k \in 1..(Len(Endpoints) * Len(Terms)) |->
          IF k \in {1, Len(Endpoints) + 1} THEN Answer(FALSE, "0", FundOutput)
          ELSE Answer(FALSE, "1", <<>>)],
      <<Answer(FALSE, "0", FundOutput), TransportError>> }

CorpCodeAnswers ==
    { [raises |-> TRUE],
      [raises |-> FALSE, nodes |-> <<CorpNode(<<" ">>, "Unlisted", "00000001")>>],
      [raises |-> FALSE, nodes |-> <<CorpNode(<<"1">>, "Samsung", "00126380")>>],
      [raises |-> FALSE, nodes |-> <<CorpNode(<<"1">>, "Samsung", "00126380"),
                                      CorpNode(<<"2">>, "", "")>>],
      [raises |-> FALSE, nodes |-> <<CorpNode(<<"1">>, "Samsung", "00126380"),
                                      CorpNode(<<"0", "0", "1">>, "Samsung Pref", "00126381")>>] }

EventAnswers ==
    { [raises |-> TRUE],
      [raises |-> FALSE, status |-> "013", list |-> <<>>],
      [raises |-> FALSE, status |-> "000",
       list |-> <<DartItem("e1", Ymd(5), "Report", "Samsung"), DartItem("", Ymd(5), "", ""),
                  DartItem("e2", BadDate, "", "")>>] }

MarginAnswers ==
    { MarginAnswer([raises |-> TRUE], NoAnswer),
      MarginAnswer([raises |-> FALSE, rt_cd |-> "1", msg1 |-> ""], NoAnswer),
      MarginAnswer([raises |-> FALSE, rt_cd |-> "0", msg1 |-> ""],
                   [raises |-> FALSE, rt_cd |-> "0", acmga_rt |-> "100"]),
      MarginAnswer([raises |-> FALSE, rt_cd |-> "0", msg1 |-> ""],
                   [raises |-> FALSE, rt_cd |-> "0", acmga_rt |-> "99.9"]),
      MarginAnswer([raises |-> FALSE, rt_cd |-> "0", msg1 |-> ""],
                   [raises |-> FALSE, rt_cd |-> "0", acmga_rt |-> ""]) }

\* The answers an action may draw: any of `answers`, or, when the recorded answers
\* of an earlier run are replayed, the recorded one.
Offered(answers) ==
    IF tape.mode = "replay"
    THEN IF tape.pos <= Len(tape.log) THEN {tape.log[tape.pos]} ELSE {}
    ELSE answers

Logged(ans) ==
    CASE tape.mode = "record" -> [tape EXCEPT !.log = Append(@, ans)]
      [] tape.mode = "replay" -> [tape EXCEPT !.pos = @ + 1]
      [] OTHER -> tape

\* n calls of a stage, appended to the history of calls.
Called(stage, n) == calls \o [i \in 1..n |-> stage]

\* The stages in the order run_ingest goes through them.
Stages == <<"symbols", "prices", "financials", "events", "margins">>

\* The skip notes without the test `if not kis_client` of prices and financials.
SkipNote_with_client(stage, a) ==
    CASE stage = "events" /\ a.dart_api_key = "" -> stage
      [] stage = "margins" /\ a.source_profile \notin {"all", "kis"} -> "margins: source_profile"
      [] stage = "margins" /\ ~kis_client(a) -> stage
      [] OTHER -> ""

\* Whether a requested stage is skipped with a note, and the note.
SkipNote(stage, a) ==
    CASE stage \in {"prices", "financials"} /\ ~kis_client(a) -> stage
      [] stage = "events" /\ a.dart_api_key = "" -> stage
      [] stage = "margins" /\ a.source_profile \notin {"all", "kis"} -> "margins: source_profile"
      [] stage = "margins" /\ ~kis_client(a) -> stage
      [] OTHER -> ""

\* From stage k on: the first stage that is requested and not skipped, with the
\* skip notes of those passed over; "finalize" when there is none.
RECURSIVE Advance(_, _, _)
Advance(k, a, ns) ==
    IF k > Len(Stages) THEN [pc |-> "finalize", notes |-> ns]
    ELSE IF Stages[k] \notin RUN_TYPE_TO_CATEGORIES(a.run_type) THEN Advance(k + 1, a, ns)
    ELSE IF SkipNote(Stages[k], a) # ""
    THEN Advance(k + 1, a, Append(ns, Note("skipped", 0, 0, NoSymbol, SkipNote(Stages[k], a))))
    ELSE [pc |-> Stages[k], notes |-> ns]

\* Lines 946-981: the credential check; then the run record, created and committed.
Begin ==
    /\ pc = "start"
    /\ IF ensure_exported_env(args) # <<>>
       THEN /\ exit_code' = 3
            /\ pc' = "returned"
            /\ UNCHANGED <<disk, work, writer, row>>
       ELSE /\ row' = NewRunRow(run_id, args)
            /\ work' = upsert_run(work, row')
            /\ disk' = work'
            /\ writer' = 0
            /\ pc' = IF args.dry_run THEN "dry_run" ELSE "resolve"
            /\ UNCHANGED exit_code
    /\ UNCHANGED <<supplied, fetch, args, run_id, symbols, idx, notes, status, error_message,
                   today, raised, calls, tape>>

\* Lines 983-1008: a dry run is finalized as success at once.
DryRun ==
    /\ pc = "dry_run"
    /\ row' = [row EXCEPT !.status = "success",
                          !.notes_json = <<Note("dry-run", 0, 0, NoSymbol, "")>>]
    /\ work' = upsert_run(work, row')
    /\ disk' = work'
    /\ writer' = 0
    /\ exit_code' = 0
    /\ pc' = "returned"
    /\ UNCHANGED <<supplied, fetch, args, run_id, symbols, idx, notes, status, error_message,
                   today, raised, calls, tape>>

\* Lines 1143-1146: an exception left the try block at `stage`.
Raise(stage, msg, ns) ==
    /\ status' = except_Exception(ns, msg).status
    /\ error_message' = except_Exception(ns, msg).error_message
    /\ notes' = except_Exception(ns, msg).notes
    /\ raised' = [stage |-> stage, msg |-> msg]
    /\ pc' = "finalize"

\* The stage's loop is over: on to stage k or to the end of the try block.
Go(k, ns) ==
    /\ pc' = Advance(k, args, ns).pc
    /\ notes' = Advance(k, args, ns).notes
    /\ idx' = 1
    /\ UNCHANGED <<status, error_message, raised>>

\* resolve_symbols for scope=all: the entries, the notes and the SetupError, given
\* the provider's enumeration (used with a disclosure key) and the stored symbols.
resolve_all(conn, a, ns, ans) ==
    LET entries == IF a.dart_api_key # "" THEN fetch_dart_corp_codes(ans.nodes)
                   ELSE [ i \in 1..Len(conn.symbol_universe) |->
                            [ conn.symbol_universe[i] EXCEPT
                                !.listed_date = IF @ = NoDate THEN NoDate ELSE Ymd(@.d) ] ]
        source == IF a.dart_api_key # "" THEN "DART corpCode" ELSE "sqlite symbol_universe"
        ns1 == IF a.dart_api_key # "" \/ entries # <<>>
               THEN Append(ns, Note("all scope symbols resolved", Len(entries), 0, NoSymbol, source))
               ELSE ns
        kept == IF a.limit_symbols > 0 /\ Len(entries) > a.limit_symbols
                THEN SubSeq(entries, 1, a.limit_symbols) ELSE entries
    IN  IF entries = <<>> THEN [raised |-> TRUE, entries |-> <<>>, notes |-> ns1]
        ELSE [ raised |-> FALSE, entries |-> kept,
               notes |-> IF a.limit_symbols > 0
                         THEN Append(ns1, Note("limit_symbols applied", Len(kept), 0, NoSymbol, ""))
                         ELSE ns1 ]

\* Lines 1010-1025: the locals before the try block, and resolve_symbols.
Resolve ==
    /\ pc = "resolve"
    /\ LET user_symbols == parse_symbols(args.symbol, <<>>)
           enumerate == args.scope # "single" /\ args.dart_api_key # ""
       IN  \E ans \in (IF enumerate THEN Offered(CorpCodeAnswers) ELSE {NoAnswer}) :
             /\ calls' = IF enumerate THEN Called("resolve", 1) ELSE calls
             /\ tape' = IF enumerate THEN Logged(ans) ELSE tape
             /\ IF args.scope = "single"
                THEN IF user_symbols = <<>>
                     THEN /\ Raise("resolve", SingleScopeMsg, notes)
                          /\ UNCHANGED <<symbols, row, idx>>
                     ELSE /\ symbols' = [ i \in 1..Len(user_symbols) |->
                                            SymbolEntry(user_symbols[i], NULL, NULL, NULL, NoDate) ]
                          /\ row' = [row EXCEPT !.symbols_count = Len(user_symbols)]
                          /\ Go(1, notes)
                ELSE IF ans.raises
                     THEN /\ Raise("resolve", TransportMsg, notes)
                          /\ UNCHANGED <<symbols, row, idx>>
                     ELSE LET r == resolve_all(work, args, notes, ans)
                          IN  IF r.raised
                              THEN /\ Raise("resolve", AllScopeMsg, r.notes)
                                   /\ UNCHANGED <<symbols, row, idx>>
                              ELSE /\ symbols' = r.entries
                                   /\ row' = [row EXCEPT !.symbols_count = Len(r.entries)]
                                   /\ Go(1, r.notes)
    /\ UNCHANGED <<storeVars, fetch, args, run_id, exit_code, today>>

\* The symbols stage with the enrichment lookup outside any try block: its
\* exception leaves the stage.
SymbolsStep_unisolated ==
    /\ pc = "symbols"
    /\ LET sym == symbols[idx]
           enrich == kis_client(args) /\ args.scope = "single"
       IN  \E ans \in (IF enrich THEN Offered(InfoAnswers) ELSE {NoAnswer}) :
             LET e  == IF enrich /\ ~ans.raises THEN Enriched(sym, ans.output) ELSE sym
             IN  /\ calls' = IF enrich THEN Called("symbols", 1) ELSE calls
                 /\ tape' = IF enrich THEN Logged(ans) ELSE tape
                 /\ IF enrich /\ ans.raises
                    THEN /\ Raise("symbols", TransportMsg, notes)
                         /\ UNCHANGED <<disk, work, writer, supplied, symbols, row, idx>>
                    ELSE /\ symbols' = [symbols EXCEPT ![idx] = e]
                         /\ work' = upsert_symbol(work, e)
                         /\ supplied' = Supply(supplied, e)
                         /\ row' = [row EXCEPT !.symbol_rows = @ + 1]
                         /\ IF idx = Len(symbols)
                            THEN /\ disk' = work'
                                 /\ writer' = 0
                                 /\ Go(2, notes)
                            ELSE /\ idx' = idx + 1
                                 /\ writer' = run_id
                                 /\ UNCHANGED <<disk, pc, notes, status, error_message, raised>>
    /\ UNCHANGED <<fetch, args, run_id, exit_code, today>>

\* Lines 1029-1050: one symbol of the symbols stage.
SymbolsStep ==
    /\ pc = "symbols"
    /\ LET sym == symbols[idx]
           enrich == kis_client(args) /\ args.scope = "single"
       IN  \E ans \in (IF enrich THEN Offered(InfoAnswers) ELSE {NoAnswer}) :
             LET e  == IF enrich /\ ~ans.raises THEN Enriched(sym, ans.output) ELSE sym
                 ns == IF enrich /\ ans.raises
                       THEN Append(notes, Note("symbol enrich failed", 0, 0, sym.stock_code, TransportMsg))
                       ELSE notes
             IN  /\ calls' = IF enrich THEN Called("symbols", 1) ELSE calls
                 /\ tape' = IF enrich THEN Logged(ans) ELSE tape
                 /\ symbols' = [symbols EXCEPT ![idx] = e]
                 /\ work' = upsert_symbol(work, e)
                 /\ supplied' = Supply(supplied, e)
                 /\ row' = [row EXCEPT !.symbol_rows = @ + 1]
                 /\ IF idx = Len(symbols)
                    THEN /\ disk' = work'
                         /\ writer' = 0
                         /\ Go(2, ns)
                    ELSE /\ idx' = idx + 1
                         /\ notes' = ns
                         /\ writer' = run_id
                         /\ UNCHANGED <<disk, pc, status, error_message, raised>>
    /\ UNCHANGED <<fetch, args, run_id, exit_code, today>>

\* Lines 1058-1072: one timeframe of one symbol of the prices stage: the fetch with
\* all its page requests, then the upsert of every row fetched.
PricesStep ==
    /\ pc = "prices"
    /\ LET tfs   == IF args.timeframes = <<>> THEN <<"D">> ELSE args.timeframes
           s     == ((idx - 1) \div Len(tfs)) + 1
           t     == ((idx - 1) % Len(tfs)) + 1
           sym   == symbols[s]
           range == derive_price_range(args, sym)
           start == FetchStart(sym.stock_code, tfs[t], range.from, range.to,
                               PageCap(args.kis_max_price_pages))
           as_of == IF to_iso_date(args.as_of_to) # NoDate THEN to_iso_date(args.as_of_to)
                    ELSE to_iso_date(args.as_of)
       IN  \E answers \in Offered(PriceTapes(start.max_pages)) :
             LET f == fetch_price_rows(start, answers)
                 u == upsert_prices(work, run_id, f.rows, as_of, 0)
             IN  /\ f.st # "loop"
                 /\ Len(f.answers) = Len(answers)
                 /\ calls' = Called("prices", Len(f.requests))
                 /\ tape' = Logged(answers)
                 /\ IF f.st = "raised"
                    THEN /\ Raise("prices", TransportMsg, notes)
                         /\ UNCHANGED <<disk, work, writer, row, idx>>
                    ELSE /\ work' = u.conn
                         /\ IF u.raised
                            THEN /\ row' = [row EXCEPT !.price_rows = @ + u.done]
                                 /\ Raise("prices", FloatMsg, notes)
                                 /\ writer' = run_id
                                 /\ UNCHANGED <<disk, idx>>
                            ELSE /\ row' = [row EXCEPT
                                              !.price_rows = @ + u.done,
                                              !.processed_symbols = IF t = Len(tfs) THEN @ + 1 ELSE @]
                                 /\ IF idx = Len(symbols) * Len(tfs)
                                    THEN /\ disk' = work'
                                         /\ writer' = 0
                                         /\ Go(3, notes)
                                    ELSE /\ idx' = idx + 1
                                         /\ writer' = run_id
                                         /\ UNCHANGED <<disk, pc, notes, status, error_message,
                                                        raised>>
    /\ UNCHANGED <<supplied, fetch, args, run_id, symbols, exit_code, today>>

\* The financials stage without the conn.commit() that ends it.
FinancialsStep_uncommitted ==
    /\ pc = "financials"
    /\ \E answers \in Offered(FundTapes) :
         LET r == fetch_fundamental_rows(symbols[idx].stock_code, answers, 1, <<>>)
         IN  /\ r.ncalls = Len(answers)
             /\ calls' = Called("financials", r.ncalls)
             /\ tape' = Logged(answers)
             /\ IF r.raised
                THEN /\ Raise("financials", TransportMsg, notes)
                     /\ UNCHANGED <<disk, work, writer, row, idx>>
                ELSE /\ work' = upsert_fundamentals(work, run_id, r.rows)
                     /\ row' = [row EXCEPT !.fundamental_rows = @ + Len(r.rows)]
                     /\ IF idx = Len(symbols)
                        THEN /\ writer' = run_id
                             /\ UNCHANGED disk
                             /\ Go(4, notes)
                        ELSE /\ idx' = idx + 1
                             /\ writer' = run_id
                             /\ UNCHANGED <<disk, pc, notes, status, error_message, raised>>
    /\ UNCHANGED <<supplied, fetch, args, run_id, symbols, exit_code, today>>

\* Lines 1079-1084: one symbol of the financials stage.
FinancialsStep ==
    /\ pc = "financials"
    /\ \E answers \in Offered(FundTapes) :
         LET r == fetch_fundamental_rows(symbols[idx].stock_code, answers, 1, <<>>)
         IN  /\ r.ncalls = Len(answers)
             /\ calls' = Called("financials", r.ncalls)
             /\ tape' = Logged(answers)
             /\ IF r.raised
                THEN /\ Raise("financials", TransportMsg, notes)
                     /\ UNCHANGED <<disk, work, writer, row, idx>>
                ELSE /\ work' = upsert_fundamentals(work, run_id, r.rows)
                     /\ row' = [row EXCEPT !.fundamental_rows = @ + Len(r.rows)]
                     /\ IF idx = Len(symbols)
                        THEN /\ disk' = work'
                             /\ writer' = 0
                             /\ Go(4, notes)
                        ELSE /\ idx' = idx + 1
                             /\ writer' = run_id
                             /\ UNCHANGED <<disk, pc, notes, status, error_message, raised>>
    /\ UNCHANGED <<supplied, fetch, args, run_id, symbols, exit_code, today>>

\* The events stage with `row["event_rows"] = len(events)` for `+= 1` per event.
EventsStep_assigning ==
    /\ pc = "events"
    /\ LET sym == symbols[idx]
           ask == sym.dart_corp_code # NULL
       IN  \E ans \in (IF ask THEN Offered(EventAnswers) ELSE {NoAnswer}) :
             LET rows == IF ask THEN fetch_dart_events(ans) ELSE <<>>
             IN  /\ calls' = IF ask THEN Called("events", 1) ELSE calls
                 /\ tape' = IF ask THEN Logged(ans) ELSE tape
                 /\ IF ans.raises
                    THEN /\ Raise("events", TransportMsg, notes)
                         /\ UNCHANGED <<disk, work, writer, row, idx>>
                    ELSE /\ work' = upsert_events(work, run_id, sym.stock_code, rows)
                         /\ row' = [row EXCEPT !.event_rows = Len(rows)]
                         /\ IF idx = Len(symbols)
                            THEN /\ disk' = work'
                                 /\ writer' = 0
                                 /\ Go(5, notes)
                            ELSE /\ idx' = idx + 1
                                 /\ writer' = IF rows # <<>> THEN run_id ELSE writer
                                 /\ UNCHANGED <<disk, pc, notes, status, error_message, raised>>
    /\ UNCHANGED <<supplied, fetch, args, run_id, symbols, exit_code, today>>

\* Lines 1093-1107: one symbol of the events stage; a symbol without a corporate
\* identifier is passed over without a call.
EventsStep ==
    /\ pc = "events"
    /\ LET sym == symbols[idx]
           ask == sym.dart_corp_code # NULL
       IN  \E ans \in (IF ask THEN Offered(EventAnswers) ELSE {NoAnswer}) :
             LET rows == IF ask THEN fetch_dart_events(ans) ELSE <<>>
             IN  /\ calls' = IF ask THEN Called("events", 1) ELSE calls
                 /\ tape' = IF ask THEN Logged(ans) ELSE tape
                 /\ IF ans.raises
                    THEN /\ Raise("events", TransportMsg, notes)
                         /\ UNCHANGED <<disk, work, writer, row, idx>>
                    ELSE /\ work' = upsert_events(work, run_id, sym.stock_code, rows)
                         /\ row' = [row EXCEPT !.event_rows = @ + Len(rows)]
                         /\ IF idx = Len(symbols)
                            THEN /\ disk' = work'
                                 /\ writer' = 0
                                 /\ Go(5, notes)
                            ELSE /\ idx' = idx + 1
                                 /\ writer' = IF rows # <<>> THEN run_id ELSE writer
                                 /\ UNCHANGED <<disk, pc, notes, status, error_message, raised>>
    /\ UNCHANGED <<supplied, fetch, args, run_id, symbols, exit_code, today>>

\* Lines 1116-1141: the margins stage: fetch_margin_rows over all symbols, the
\* upsert of every item, the commit and the note.
MarginsStage ==
    /\ pc = "margins"
    /\ LET codes == [i \in 1..Len(symbols) |-> symbols[i].stock_code]
           asked == IF Len(args.kis_account_no) < 10 THEN 0 ELSE Len(codes)
           as_of == IF to_iso_date(args.as_of_to) # NoDate THEN to_iso_date(args.as_of_to)
                    ELSE IF to_iso_date(args.as_of) # NoDate THEN to_iso_date(args.as_of)
                    ELSE Iso(today)
       IN  \E answers \in Offered([1..asked -> MarginAnswers]) :
             LET items == fetch_margin_rows(args.kis_account_no, codes, answers)
                 u == upsert_margins(work, run_id, items, as_of, [collected |-> 0, failed |-> 0])
                 ncalls == SumCalls(answers)
             IN  /\ calls' = Called("margins", ncalls)
                 /\ tape' = Logged(answers)
                 /\ work' = u.conn
                 /\ disk' = work'
                 /\ writer' = 0
                 /\ row' = [row EXCEPT !.margin_rows = @ + u.collected + u.failed]
                 /\ notes' = Append(notes, Note("margins", u.collected, u.failed, NoSymbol, ""))
                 /\ pc' = "finalize"
    /\ UNCHANGED <<supplied, fetch, args, run_id, symbols, idx, status, error_message,
                   exit_code, today, raised>>

\* Lines 1148-1182: the run record takes the final status, the notes and the error
\* message, is written and committed; run_ingest returns.
Finalize ==
    /\ pc = "finalize"
    /\ row' = [row EXCEPT !.status = status, !.notes_json = notes,
                          !.error_message = error_message]
    /\ work' = upsert_run(work, row')
    /\ disk' = work'
    /\ writer' = 0
    /\ exit_code' = exit_code_of(status)
    /\ pc' = "returned"
    /\ UNCHANGED <<supplied, fetch, args, run_id, symbols, idx, notes, status, error_message,
                   today, raised, calls, tape>>

\* The runs explored: every run type, scope and source profile, with all
\* credentials, with one of them absent, with no quote-provider credential and
\* with too short an account number, started on an empty store.
FullEnv ==
    [ KIS_APP_KEY |-> "key", KIS_APP_SECRET |-> "secret", KIS_ACCOUNT_NO |-> "1234567801",
      DART_API_KEY |-> "dart" ]

Envs ==
    { FullEnv,
      [FullEnv EXCEPT !.KIS_APP_KEY = ""],
      [FullEnv EXCEPT !.KIS_APP_SECRET = ""],
      [FullEnv EXCEPT !.KIS_APP_KEY = "", !.KIS_APP_SECRET = "", !.KIS_ACCOUNT_NO = ""],
      [FullEnv EXCEPT !.KIS_ACCOUNT_NO = ""],
      [FullEnv EXCEPT !.KIS_ACCOUNT_NO = "12345678"],
      [FullEnv EXCEPT !.DART_API_KEY = ""] }

SymbolLists ==
    { <<>>, << <<"a">> >>, << <<"1">> >>, << <<"1">>, <<"0", "0", "1">> >>, << <<"1">>, <<"2">> >> }

RunArgs ==
    { Args(run_type, "single", symbol, source_profile, dry_run, 0, env) :
        run_type \in RUN_TYPES, symbol \in SymbolLists, source_profile \in {"all", "kis", "dart"},
        dry_run \in BOOLEAN, env \in Envs }
    \cup
    { Args(run_type, "all", <<>>, source_profile, dry_run, limit_symbols, env) :
        run_type \in RUN_TYPES, source_profile \in {"all", "kis", "dart"},
        dry_run \in BOOLEAN, limit_symbols \in {0, 1}, env \in Envs }

TapeOff == [mode |-> "off", log |-> <<>>, pos |-> 0, counts |-> <<>>]

\* run_ingest is entered with the arguments a and run identifier rid.
Enter(a, rid) ==
    /\ args = a
    /\ pc = "start"
    /\ run_id = rid
    /\ symbols = <<>>
    /\ idx = 1
    /\ row = <<>>
    /\ notes = <<>>
    /\ status = "success"
    /\ error_message = NULL
    /\ exit_code = NULL
    /\ raised = NotRaised
    /\ calls = <<>>

Init ==
    /\ disk = EmptyStore
    /\ work = EmptyStore
    /\ writer = 0
    /\ supplied = [c \in Codes |-> NothingSupplied]
    /\ FetchIdle
    /\ today = Today
    /\ tape = TapeOff
    /\ \E a \in RunArgs : Enter(a, 1)

Next ==
    \/ Begin
    \/ DryRun
    \/ Resolve
    \/ SymbolsStep
    \/ PricesStep
    \/ FinancialsStep
    \/ EventsStep
    \/ MarginsStage
    \/ Finalize

Spec == Init /\ [][Next]_vars

-----------------------------------------------------------------------------
(* The same ingestion run twice: main() is invoked a second time with the     *)
(* same arguments on the store the first run left, the same day or the next,  *)
(* and the providers answer every call as they answered it in the first run.  *)

RowCounts(conn) ==
    [ symbol_universe           |-> Len(conn.symbol_universe),
      raw_price_ohlcv           |-> Len(conn.raw_price_ohlcv),
      raw_fundamental_statement |-> Len(conn.raw_fundamental_statement),
      raw_event_feed            |-> Len(conn.raw_event_feed),
      symbol_margin_policy      |-> Len(conn.symbol_margin_policy) ]

TwiceArgs ==
    { Args("all", "single", << <<"1">> >>, "all", dry_run, 0, FullEnv) : dry_run \in BOOLEAN }
    \cup { Args("all", "all", <<>>, "all", FALSE, 1, FullEnv),
           Args("symbols", "single", << <<"1">>, <<"2">> >>, "all", FALSE, 0, FullEnv),
           Args("margins", "single", << <<"1">> >>, "kis", FALSE, 0,
                [FullEnv EXCEPT !.KIS_ACCOUNT_NO = "12345678"]),
           Args("margins", "single", << <<"1">>, <<"2">> >>, "kis", FALSE, 0, FullEnv),
           Args("events", "all", <<>>, "dart", FALSE, 0, FullEnv) }

TwiceInit ==
    /\ disk = EmptyStore
    /\ work = EmptyStore
    /\ writer = 0
    /\ supplied = [c \in Codes |-> NothingSupplied]
    /\ FetchIdle
    /\ today = Today
    /\ tape = [mode |-> "record", log |-> <<>>, pos |-> 0, counts |-> <<>>]
    /\ \E a \in TwiceArgs, as_of \in {NoDate, Iso(4)} : Enter([a EXCEPT !.as_of = as_of], 1)

\* The first run has returned; the second is entered.
Rerun ==
    /\ pc = "returned"
    /\ tape.mode = "record"
    /\ tape' = [mode |-> "replay", log |-> tape.log, pos |-> 1, counts |-> RowCounts(disk)]
    /\ \E d \in {today, today + 1} : today' = d
    /\ pc' = "start"
    /\ run_id' = run_id + 1
    /\ symbols' = <<>>
    /\ idx' = 1
    /\ row' = <<>>
    /\ notes' = <<>>
    /\ status' = "success"
    /\ error_message' = NULL
    /\ exit_code' = NULL
    /\ raised' = NotRaised
    /\ calls' = <<>>
    /\ UNCHANGED <<storeVars, fetch, args>>

TwiceNext ==
    \/ Next
    \/ Rerun

SpecTwice == TwiceInit /\ [][TwiceNext]_vars

-----------------------------------------------------------------------------
(* A run on the store an earlier run left: `run --run-type symbols --symbol 1` *)
(* was run first, enriched its symbol and succeeded; the run explored is the   *)
(* second on that database.                                                    *)

\* The symbol the earlier run stored.
SeededEntry ==
    Enriched(SymbolEntry(CodeA, NULL, NULL, NULL, NoDate),
             StockInfo("STK", Ymd(1), "Samsung").output)

SeededStore ==
    LET a0 == Args("symbols", "single", << <<"1">> >>, "all", FALSE, 0, FullEnv)
        r0 == NewRunRow(1, a0)
    IN  upsert_run(upsert_symbol(upsert_run(EmptyStore, r0), SeededEntry),
                   [r0 EXCEPT !.status = "success", !.symbol_rows = 1])

SeededArgs ==
    { Args(run_type, "all", <<>>, source_profile, dry_run, 0, env) :
        run_type \in {"symbols", "all"}, source_profile \in {"all", "kis", "dart"},
        dry_run \in BOOLEAN, env \in {FullEnv, [FullEnv EXCEPT !.DART_API_KEY = ""]} }

SeededInit ==
    /\ disk = SeededStore
    /\ work = SeededStore
    /\ writer = 0
    /\ supplied = Supply([c \in Codes |-> NothingSupplied], SeededEntry)
    /\ FetchIdle
    /\ today = Today
    /\ tape = TapeOff
    /\ \E a \in SeededArgs : Enter(a, 2)

SpecSeeded == SeededInit /\ [][Next]_vars

-----------------------------------------------------------------------------
(* derive_price_range on its own: line 1059 of the prices stage, for one      *)
(* symbol, over the date overrides, lookback counts, windows and listing      *)
(* dates a namespace can carry.                                               *)

\* The largest lookback count explored.
MaxLookback == 2

RangeArgs ==
    { [ Args("prices", "single", << <<"1">> >>, "all", FALSE, 0, FullEnv) EXCEPT
          !.as_of_from = f, !.as_of_to = t, !.prices_lookback_days = d,
          !.prices_window = w, !.prices_backfill = b ] :
        f \in {NoDate, Ymd(3), Iso(3), BadDate}, t \in {NoDate, Ymd(8)},
        d \in {NoDays} \cup 0..MaxLookback, w \in {"fast", "normal", "full", NULL},
        b \in BOOLEAN }

RangeInit ==
    /\ disk = EmptyStore
    /\ work = EmptyStore
    /\ writer = 0
    /\ supplied = [c \in Codes |-> NothingSupplied]
    /\ FetchIdle
    /\ today = Today
    /\ tape = TapeOff
    /\ \E a \in RangeArgs : args = a
    /\ \E listed_date \in {NoDate, Ymd(1)} :
          symbols = <<SymbolEntry(CodeA, NULL, NULL, NULL, listed_date)>>
    /\ pc = "prices"
    /\ run_id = 1
    /\ idx = 1
    /\ row = <<>>
    /\ notes = <<>>
    /\ status = "success"
    /\ error_message = NULL
    /\ exit_code = NULL
    /\ raised = NotRaised
    /\ calls = <<>>

\* date_from, date_to = derive_price_range(args, sym)
DeriveRange ==
    /\ pc = "prices"
    /\ fetch = <<>>
    /\ LET range == derive_price_range(args, symbols[idx])
       IN  fetch' = [date_from |-> range.from, date_to |-> range.to]
    /\ pc' = "derived"
    /\ UNCHANGED <<storeVars, args, run_id, symbols, idx, row, notes, status, error_message,
                   exit_code, today, raised, calls, tape>>

RangeNext == DeriveRange

SpecRange == RangeInit /\ [][RangeNext]_vars

-----------------------------------------------------------------------------
(* parse_symbols on its own: line 833 of resolve_symbols, over --symbol values *)
(* made of digits and other characters.                                        *)

\* The longest --symbol value explored.
MaxSymbolLen == 7

SymbolChars == {"0", "7", "x"}

RawSymbols == UNION { [1..n -> SymbolChars] : n \in 0..MaxSymbolLen }

\* One --symbol value, or one followed by a second that is a digit or a letter.
RawSymbolLists ==
    { <<raw>> : raw \in RawSymbols }
    \cup { <<raw, <<ch>> >> : raw \in RawSymbols, ch \in {"7", "x"} }

ParseInit ==
    /\ disk = EmptyStore
    /\ work = EmptyStore
    /\ writer = 0
    /\ supplied = [c \in Codes |-> NothingSupplied]
    /\ FetchIdle
    /\ today = Today
    /\ tape = TapeOff
    /\ \E raws \in RawSymbolLists :
          args = Args("symbols", "single", raws, "all", FALSE, 0, FullEnv)
    /\ symbols = <<>>
    /\ pc = "resolve"
    /\ run_id = 1
    /\ idx = 1
    /\ row = <<>>
    /\ notes = <<>>
    /\ status = "success"
    /\ error_message = NULL
    /\ exit_code = NULL
    /\ raised = NotRaised
    /\ calls = <<>>

\* user_symbols = parse_symbols(args)
ParseSymbols ==
    /\ pc = "resolve"
    /\ symbols' = parse_symbols(args.symbol, <<>>)
    /\ pc' = "parsed"
    /\ UNCHANGED <<storeVars, fetch, args, run_id, idx, row, notes, status, error_message,
                   exit_code, today, raised, calls, tape>>

ParseNext == ParseSymbols

SpecParse == ParseInit /\ [][ParseNext]_vars

-----------------------------------------------------------------------------
(* Runs with --limit-symbols: both scopes, with an explicit list of one or    *)
(* two symbols or an enumeration of one or two instruments.                   *)

\* The largest --limit-symbols value explored.
MaxLimit == 2

CapArgs ==
    { Args(run_type, "single", symbol, "all", dry_run, limit_symbols, FullEnv) :
        run_type \in {"symbols", "all"},
        symbol \in { << <<"1">> >>, << <<"1">>, <<"2">> >> },
        dry_run \in BOOLEAN, limit_symbols \in 0..MaxLimit }
    \cup
    { Args(run_type, "all", <<>>, "all", dry_run, limit_symbols, FullEnv) :
        run_type \in {"symbols", "all"}, dry_run \in BOOLEAN, limit_symbols \in 0..MaxLimit }

CapInit ==
    /\ disk = EmptyStore
    /\ work = EmptyStore
    /\ writer = 0
    /\ supplied = [c \in Codes |-> NothingSupplied]
    /\ FetchIdle
    /\ today = Today
    /\ tape = TapeOff
    /\ \E a \in CapArgs : Enter(a, 1)

SpecCap == CapInit /\ [][Next]_vars

-----------------------------------------------------------------------------
(* fetch_price_rows against a provider that may ignore the upper date bound:  *)
(* pages of one or two well-formed candles, up to three requests.             *)

\* The page cap of the fetches explored.
MaxSlidePages == 3

SlidePages ==
    { <<Candle(Ymd(d), "10")>> : d \in 2..5 }
    \cup { <<Candle(Ymd(d), "10"), Candle(Ymd(e), "10")>> : d \in 2..5, e \in 2..5 }

SlideAnswers == {Answer(FALSE, "0", <<>>)} \cup { Answer(FALSE, "0", o) : o \in SlidePages }

SlideInit ==
    /\ RunIdle
    /\ \E date_from \in {Ymd(1), Ymd(3)}, kis_max_price_pages \in 1..MaxSlidePages :
          fetch = FetchStart(CodeA, "D", date_from, Ymd(8), PageCap(kis_max_price_pages))
    /\ disk = EmptyStore
    /\ work = EmptyStore
    /\ writer = 0
    /\ supplied = [c \in Codes |-> NothingSupplied]

\* One page request and the provider's answer to it.
SlidePage ==
    /\ fetch.st = "loop"
    /\ \E ans \in SlideAnswers : fetch' = PageStep(fetch, ans)
    /\ UNCHANGED <<storeVars, runVars>>

SlideNext == SlidePage

SpecSlide == SlideInit /\ [][SlideNext]_vars

-----------------------------------------------------------------------------
(* The two views of a finalized run: the payload run_ingest returns and the   *)
(* record the status command reads back.                                      *)

\* Lines 1156-1182: the payload of a run that went through the finalization,
\* built from the locals.
payload ==
    [ ok                |-> status = "success",
      run_id            |-> run_id,
      status            |-> status,
      symbols_count     |-> row.symbols_count,
      processed_symbols |-> row.processed_symbols,
      row_counts        |-> [ symbol_universe           |-> row.symbol_rows,
                              raw_price_ohlcv           |-> row.price_rows,
                              raw_fundamental_statement |-> row.fundamental_rows,
                              raw_event_feed            |-> row.event_rows,
                              symbol_margin_policy      |-> row.margin_rows ],
      notes             |-> notes,
      error             |-> error_message ]

\* get_status: the run record of rid as selected from ingest_runs.
get_status(conn, rid) ==
    LET tbl == conn.ingest_runs
        i   == RowAt([j \in 1..Len(tbl) |-> tbl[j].run_id], rid)
    IN  IF i = 0 THEN [ok |-> FALSE]
        ELSE [ ok                |-> TRUE,
               run_id            |-> tbl[i].run_id,
               status            |-> tbl[i].status,
               symbols_count     |-> tbl[i].symbols_count,
               processed_symbols |-> tbl[i].processed_symbols,
               row_counts        |-> [ symbol_universe           |-> tbl[i].symbol_rows,
                                       raw_price_ohlcv           |-> tbl[i].price_rows,
                                       raw_fundamental_statement |-> tbl[i].fundamental_rows,
                                       raw_event_feed            |-> tbl[i].event_rows,
                                       symbol_margin_policy      |-> tbl[i].margin_rows ],
               notes             |-> tbl[i].notes_json,
               error             |-> tbl[i].error_message ]

-----------------------------------------------------------------------------
(* The prices stage for one symbol, from the derived range to the requests:  *)
(* lines 1059-1066 of run_ingest and the loop of fetch_price_rows, over       *)
(* namespaces with and without a price window.                                *)

UnboundedArgs ==
    { a \in RangeArgs :
        /\ a.as_of_from \in {NoDate, Ymd(3)}
        /\ a.prices_lookback_days = NoDays
        /\ a.prices_window \in {"fast", NULL} }

UnboundedInit == RangeInit /\ args \in UnboundedArgs

\* kis_client.fetch_price_rows(symbol, tf, date_from, date_to, max_pages) is entered.
EnterFetch ==
    /\ pc = "derived"
    /\ fetch' = FetchStart(symbols[idx].stock_code, "D", fetch.date_from, fetch.date_to,
                           PageCap(args.kis_max_price_pages))
    /\ pc' = "fetching"
    /\ UNCHANGED <<storeVars, args, run_id, symbols, idx, row, notes, status, error_message,
                   exit_code, today, raised, calls, tape>>

\* One page request of that fetch and the provider's answer to it.
RangePage ==
    /\ pc = "fetching"
    /\ fetch.st = "loop"
    /\ \E ans \in SlideAnswers : fetch' = PageStep(fetch, ans)
    /\ UNCHANGED <<storeVars, runVars>>

UnboundedNext ==
    \/ DeriveRange
    \/ EnterFetch
    \/ RangePage

SpecUnbounded == UnboundedInit /\ [][UnboundedNext]_vars

-----------------------------------------------------------------------------
(* Properties of the pagination *)

\* The days of the 8-digit candle dates of a page.
PageDays(output) ==
    { output[i].stck_bsop_date.d : i \in { j \in 1..Len(output) : output[j].stck_bsop_date.k = "ymd" } }

\* The oldest candle date of a page: the minimum of its candle dates.
OldestDay(output) == CHOOSE d \in PageDays(output) : \A e \in PageDays(output) : d <= e

\* A successful, non-empty page of well-formed candle dates, the oldest of them
\* strictly after `from`.
SlidingPage(ans, from_date) ==
    /\ ~ans.raises
    /\ ans.rt_cd = "0"
    /\ ans.output # <<>>
    /\ \A i \in 1..Len(ans.output) : ans.output[i].stck_bsop_date.k = "ymd"
    /\ OldestDay(ans.output) > from_date.d

AllPagesSliding ==
    /\ \A k \in 1..Len(fetch.answers) : SlidingPage(fetch.answers[k], fetch.from_date)
    /\ \A k \in 1..(Len(fetch.answers) - 1) :
          OldestDay(fetch.answers[k + 1].output) < OldestDay(fetch.answers[k].output)

\* C7: the fetch never issues more than max_pages (the configured cap, at least 1)
\* page requests whatever the provider answers, it stops once it has issued that
\* many, and when every page was successful, non-empty and had an oldest candle
\* date strictly after `from`, strictly decreasing from page to page, it has issued
\* exactly max_pages requests when it returns.
C7_PageCapIsHardCeiling ==
    /\ fetch.max_pages >= 1
    /\ Len(fetch.requests) <= fetch.max_pages
    /\ Len(fetch.requests) = fetch.max_pages => fetch.st # "loop"
    /\ (fetch.st = "returned" /\ AllPagesSliding) => Len(fetch.requests) = fetch.max_pages

\* A fetch that returned at a cap of 2 after two sliding pages, `from` never reached.
C7_Witness ==
    /\ fetch.st = "returned"
    /\ fetch.max_pages = 2
    /\ Len(fetch.requests) = 2
    /\ AllPagesSliding

\* A page after which the fetch is to stop: non-success status, empty or absent
\* list, or an oldest candle date that is not strictly after `from`.
StoppingPage(ans, from_date) ==
    /\ ~ans.raises
    /\ \/ ans.rt_cd # "0"
       \/ ans.output = <<>>
       \/ PageDays(ans.output) # {} /\ OldestDay(ans.output) <= from_date.d

RECURSIVE RowsOfPages(_, _, _)
RowsOfPages(symbol, timeframe, answers) ==
    IF answers = <<>> THEN <<>>
    ELSE LET ans == Head(answers)
         IN  (IF ~ans.raises /\ ans.rt_cd = "0" THEN PageRows(symbol, timeframe, ans.output)
              ELSE <<>>)
             \o RowsOfPages(symbol, timeframe, Tail(answers))

\* C8: no page request follows a page that reported a non-success status, returned
\* an empty or absent list, or whose oldest candle date is not strictly after
\* `from`; a first page whose oldest candle date equals `from` ends the fetch after
\* exactly one request; the returned rows are those of all successful pages.
C8_StopConditions ==
    /\ \A k \in 1..(Len(fetch.answers) - 1) :
          ~StoppingPage(fetch.answers[k], fetch.from_date)
    /\ ( /\ Len(fetch.answers) >= 1
         /\ ~fetch.answers[1].raises
         /\ fetch.answers[1].rt_cd = "0"
         /\ PageDays(fetch.answers[1].output) # {}
         /\ OldestDay(fetch.answers[1].output) = fetch.from_date.d )
       => (Len(fetch.requests) = 1 /\ fetch.st = "returned")
    /\ fetch.st = "returned"
       => fetch.rows = RowsOfPages(fetch.symbol, fetch.timeframe, fetch.answers)

-----------------------------------------------------------------------------
(* Properties of the persistence layer *)

SymbolFields(r) ==
    [ name |-> r.name, market |-> r.market, dart_corp_code |-> r.dart_corp_code,
      listed_date |-> r.listed_date ]

\* Every stored symbol row carries, per field, the last non-null value supplied.
CoalescePreserved ==
    \A i \in 1..Len(work.symbol_universe) :
        SymbolFields(work.symbol_universe[i]) = supplied[work.symbol_universe[i].stock_code]

\* A symbol row stays where it is and none of its non-null fields becomes null.
NeverNullAgain ==
    \A i \in 1..Len(work.symbol_universe) :
        /\ i <= Len(work'.symbol_universe)
        /\ work'.symbol_universe[i].stock_code = work.symbol_universe[i].stock_code
        /\ work.symbol_universe[i].name # NULL => work'.symbol_universe[i].name # NULL
        /\ work.symbol_universe[i].market # NULL => work'.symbol_universe[i].market # NULL
        /\ work.symbol_universe[i].dart_corp_code # NULL
              => work'.symbol_universe[i].dart_corp_code # NULL
        /\ work.symbol_universe[i].listed_date # NoDate
              => work'.symbol_universe[i].listed_date # NoDate

Unique(keys) ==
    \A i, j \in 1..Len(keys) : keys[i] = keys[j] => i = j

UniqueNaturalKeys(conn) ==
    /\ Unique([i \in 1..Len(conn.symbol_universe) |-> SymbolKey(conn.symbol_universe[i])])
    /\ Unique([i \in 1..Len(conn.raw_price_ohlcv) |-> PriceKey(conn.raw_price_ohlcv[i])])
    /\ Unique([i \in 1..Len(conn.raw_fundamental_statement) |-> FundamentalKey(conn.raw_fundamental_statement[i])])
    /\ Unique([i \in 1..Len(conn.raw_event_feed) |-> EventKey(conn.raw_event_feed[i])])
    /\ Unique([i \in 1..Len(conn.symbol_margin_policy) |-> MarginKey(conn.symbol_margin_policy[i])])

\* C10: after any sequence of upserts issued by the two runs, interleaved at will,
\* the store (committed, and as seen inside the open transaction) holds at most one
\* row per natural key in each of the five kinds.
C10_OneRowPerNaturalKey == UniqueNaturalKeys(work) /\ UniqueNaturalKeys(disk)

\* Run 2 has upserted the candle key that run 1 committed, next to a second key.
C10_Witness ==
    /\ writer = 2
    /\ Len(disk.raw_price_ohlcv) = 1
    /\ disk.raw_price_ohlcv[1].run_id = 1
    /\ Len(work.raw_price_ohlcv) = 2
    /\ work.raw_price_ohlcv[1].run_id = 2
    /\ PriceKey(work.raw_price_ohlcv[1]) = PriceKey(disk.raw_price_ohlcv[1])

-----------------------------------------------------------------------------
(* Properties of the run *)

\* The persisted status of run rid in conn: "absent" when it has no record.
PersistedStatus(conn, rid) ==
    LET tbl == conn.ingest_runs
        i   == RowAt([j \in 1..Len(tbl) |-> tbl[j].run_id], rid)
    IN  IF i = 0 THEN "absent" ELSE tbl[i].status

PersistedRun(conn, rid) ==
    conn.ingest_runs[RowAt([j \in 1..Len(conn.ingest_runs) |-> conn.ingest_runs[j].run_id], rid)]

StatusesValid ==
    /\ \A i \in 1..Len(disk.ingest_runs) :
          disk.ingest_runs[i].status \in {"running", "success", "failed"}
    /\ \A i \in 1..Len(work.ingest_runs) :
          work.ingest_runs[i].status \in {"running", "success", "failed"}

StatusStep ==
    \A rid \in Runs :
        /\ PersistedStatus(disk, rid) = "absent"
              => PersistedStatus(disk', rid) \in {"absent", "running"}
        /\ PersistedStatus(disk, rid) = "running"
              => PersistedStatus(disk', rid) \in {"running", "success", "failed"}
        /\ PersistedStatus(disk, rid) \in {"success", "failed"}
              => PersistedStatus(disk', rid) = PersistedStatus(disk, rid)

\* C1: the persisted status of a run is always one of running, success, failed; the
\* run record appears with status running; the only changes of a persisted status
\* are running->success and running->failed; a status success or failed never
\* changes again.
C1_RunStatusMachine == [](StatusesValid) /\ [][StatusStep]_vars

\* A run whose record went from running to success, all five stages done.
C1_Witness ==
    /\ pc = "returned"
    /\ args.run_type = "all"
    /\ PersistedStatus(disk, run_id) = "success"
    /\ row.margin_rows > 0

\* Every price row of the committed store is in it, unchanged, after the step.
PricesKept ==
    \A i \in 1..Len(disk.raw_price_ohlcv) :
        \E j \in 1..Len(disk'.raw_price_ohlcv) : disk'.raw_price_ohlcv[j] = disk.raw_price_ohlcv[i]

\* C2: once the prices stage has committed, every step of the run keeps the price
\* rows it committed; and when the financials stage then raised, the run is
\* persisted as failed once run_ingest has returned.
C2_PartialFailureDurability ==
    /\ [][(pc \in {"financials", "events", "margins", "finalize"}) => PricesKept]_vars
    /\ []((pc = "returned" /\ raised.stage = "financials")
             => PersistedStatus(disk, run_id) = "failed")

\* The financials stage raised after the prices stage had committed candles, and
\* the run has been finalized.
C2_Witness ==
    /\ pc = "returned"
    /\ raised.stage = "financials"
    /\ "prices" \in RUN_TYPE_TO_CATEGORIES(args.run_type)
    /\ Len(disk.raw_price_ohlcv) >= 2
    /\ PersistedStatus(disk, run_id) = "failed"

\* C4: a run that passed the credential check has a run record from then on; when
\* run_ingest has returned its persisted status is success or failed; a record
\* persisted as success or failed is never written again; and no run stops
\* before run_ingest returns.
C4_FinalizedOnce ==
    /\ []((pc \notin {"start", "returned"} \/ (pc = "returned" /\ exit_code # 3))
             => PersistedStatus(disk, run_id) # "absent")
    /\ []((pc = "returned" /\ exit_code # 3)
             => PersistedStatus(disk, run_id) \in {"success", "failed"})
    /\ [][(PersistedStatus(disk, run_id) \in {"success", "failed"})
             => disk'.ingest_runs = disk.ingest_runs]_vars
    /\ [](pc # "returned" => ENABLED Next)

\* The events stage raised and the run has been finalized as failed.
C4_Witness ==
    /\ pc = "returned"
    /\ raised.stage = "events"
    /\ PersistedStatus(disk, run_id) = "failed"

CategoryRows(conn) ==
    <<conn.symbol_universe, conn.raw_price_ohlcv, conn.raw_fundamental_statement,
      conn.raw_event_feed, conn.symbol_margin_policy>>

\* C5: from the moment an exception has escaped the prices, financials or events
\* stage, the run issues no provider call and writes no row of the five kinds;
\* when run_ingest has returned, the run is persisted as failed with the
\* exception's message as its error message, and the exit code is 1.
C5_FailureAborts ==
    /\ [][(raised.stage \in {"prices", "financials", "events"})
             => (calls' = calls /\ CategoryRows(work') = CategoryRows(work))]_vars
    /\ []((pc = "returned" /\ raised.stage \in {"prices", "financials", "events"})
             => /\ PersistedStatus(disk, run_id) = "failed"
                /\ PersistedRun(disk, run_id).error_message = raised.msg
                /\ exit_code = 1)

\* A number did not parse in the prices stage of a run of all categories: the run
\* returned 1 without a single call of a later stage.
C5_Witness ==
    /\ pc = "returned"
    /\ args.run_type = "all"
    /\ raised = [stage |-> "prices", msg |-> FloatMsg]
    /\ exit_code = 1
    /\ \A i \in 1..Len(calls) : calls[i] \in {"resolve", "symbols", "prices"}

\* A credential the requested categories and scope require is absent: the quote
\* provider's key or secret for prices, financials or margins, the account number
\* for margins (each when the source profile includes the quote provider), the
\* disclosure provider's key for events (when the profile includes it) or for
\* scope all.
RequiredCredentialMissing ==
    LET categories == RUN_TYPE_TO_CATEGORIES(args.run_type)
        quote == args.source_profile \in {"all", "kis"}
    IN  \/ /\ categories \cap {"prices", "financials", "margins"} # {}
           /\ quote
           /\ (args.kis_app_key = "" \/ args.kis_app_secret = "")
        \/ /\ "margins" \in categories
           /\ quote
           /\ args.kis_account_no = ""
        \/ /\ "events" \in categories
           /\ args.source_profile \in {"all", "dart"}
           /\ args.dart_api_key = ""
        \/ /\ args.scope = "all"
           /\ args.dart_api_key = ""

\* C6: in a run that is not a dry run and lacks a required credential, no provider
\* call is ever made, no row of the five kinds is written, the run has no record
\* (hence no progress), it goes from the check straight to its return, and
\* the exit code is 3.
C6_MissingCredentialRefused ==
    (~args.dry_run /\ RequiredCredentialMissing)
        => /\ calls = <<>>
           /\ TotalRows(work) = 0
           /\ TotalRows(disk) = 0
           /\ PersistedStatus(work, run_id) = "absent"
           /\ PersistedStatus(disk, run_id) = "absent"
           /\ pc \in {"start", "returned"}
           /\ pc = "returned" => exit_code = 3

\* An all-scope run of prices without the disclosure provider's key was refused.
C6_Witness ==
    /\ pc = "returned"
    /\ exit_code = 3
    /\ args.scope = "all"
    /\ args.run_type = "prices"
    /\ args.dart_api_key = ""
    /\ args.kis_app_key # ""

\* C3 as stated: after the second of two runs with the same arguments and the same
\* provider answers, each of the five kinds has as many rows as after the first.
C3_SameRowCounts ==
    (tape.mode = "replay" /\ pc = "returned") => RowCounts(disk) = tape.counts

\* The as-of date of the margin records a run writes today.
MarginAsOf ==
    IF to_iso_date(args.as_of_to) # NoDate THEN to_iso_date(args.as_of_to)
    ELSE IF to_iso_date(args.as_of) # NoDate THEN to_iso_date(args.as_of)
    ELSE Iso(today)

\* C3 amended: the same, when both runs date their margin records alike: an as-of
\* date is given, or the second run starts on the UTC date of the first.
C3_SameRowCountsSameAsOf ==
    (tape.mode = "replay" /\ pc = "returned" /\ (MarginAsOf # Iso(today) \/ today = Today))
        => RowCounts(disk) = tape.counts

\* The second run of all categories has returned with success on the day of the
\* first, which had written rows of four kinds.
C3_Witness ==
    /\ tape.mode = "replay"
    /\ pc = "returned"
    /\ today = Today
    /\ status = "success"
    /\ tape.counts.symbol_universe > 0
    /\ tape.counts.raw_price_ohlcv > 1
    /\ tape.counts.raw_fundamental_statement > 0
    /\ tape.counts.symbol_margin_policy > 0
    /\ RowCounts(disk) = tape.counts

-----------------------------------------------------------------------------
(* Properties of the dry run, the category order and the per-item isolation *)

\* C11: a run with the dry-run flag never issues a provider call, never enters
\* resolve_symbols or a category stage, and writes no row of the five kinds; once
\* it has returned, the store holds exactly one run record, persisted with status
\* success and notes ["dry-run"], and the exit code is 0, whatever credentials
\* are present.
C11_DryRunWritesOnlyTheRun ==
    args.dry_run
        => /\ calls = <<>>
           /\ pc \in {"start", "dry_run", "returned"}
           /\ TotalRows(work) = 0
           /\ TotalRows(disk) = 0
           /\ pc = "returned"
                => /\ exit_code = 0
                   /\ Len(disk.ingest_runs) = 1
                   /\ PersistedStatus(disk, run_id) = "success"
                   /\ PersistedRun(disk, run_id).notes_json = <<Note("dry-run", 0, 0, NoSymbol, "")>>

\* A dry run of all categories in scope all has returned 0 without any of the
\* quote provider's credentials.
C11_Witness ==
    /\ args.dry_run
    /\ pc = "returned"
    /\ exit_code = 0
    /\ args.run_type = "all"
    /\ args.scope = "all"
    /\ args.kis_app_key = ""
    /\ args.kis_account_no = ""
    /\ Len(disk.ingest_runs) = 1

\* The place of a statement of run_ingest, and of a provider call, in the order of
\* the stages.
Order(at) ==
    CASE at = "symbols" -> 1
      [] at = "prices" -> 2
      [] at = "financials" -> 3
      [] at = "events" -> 4
      [] at = "margins" -> 5
      [] at = "finalize" -> 6
      [] at = "returned" -> 7
      [] OTHER -> 0

\* The table a category writes.
TableOf(conn, k) == CategoryRows(conn)[k]

\* A step taken inside category k issues calls of that category only and writes
\* that category's table only; a step taken outside the categories writes none.
OneCategoryAtATime ==
    /\ Order(pc') >= Order(pc)
    /\ \A i \in (Len(calls) + 1)..Len(calls') : Order(calls'[i]) = Order(pc)
    /\ \A k \in 1..Len(Stages) : k # Order(pc) => TableOf(work', k) = TableOf(work, k)

\* C12: the provider calls of a run are issued in the order symbols, prices,
\* financials, events, margins of their categories; the run never goes back to an
\* earlier category; a step of a category writes that category's rows only; and
\* whenever the run is in a category, the rows of every earlier category are
\* committed.
C12_FixedCategoryOrder ==
    /\ [](\A i, j \in 1..Len(calls) : i < j => Order(calls[i]) <= Order(calls[j]))
    /\ [](\A k \in 1..Len(Stages) :
            (pc \in {"prices", "financials", "events", "margins"} /\ Order(pc) > k)
                => TableOf(work, k) = TableOf(disk, k))
    /\ [][OneCategoryAtATime]_vars

\* The margins stage of an all-scope run is reached after each earlier category
\* committed rows and the prices, financials and events categories issued calls.
C12_Witness ==
    /\ pc = "margins"
    /\ \A k \in 1..4 : TableOf(disk, k) # <<>>
    /\ \A k \in 2..4 : \E i \in 1..Len(calls) : calls[i] = Stages[k]

\* The answer the step being taken draws from the provider, read from the record
\* of answers.
AnswerDrawn ==
    IF tape.mode = "replay" THEN tape.log[tape.pos] ELSE tape'.log[Len(tape'.log)]

\* One symbol of the symbols stage: it is upserted and counted, the loop goes on
\* to the next symbol or the stage ends, no exception leaves the stage, and a
\* note naming the symbol is appended exactly when its enrichment lookup raised.
SymbolsStepIsolated ==
    LET code == symbols[idx].stock_code
        looked_up == calls' # calls
        failed == looked_up /\ AnswerDrawn.raises
        keys == [j \in 1..Len(work'.symbol_universe) |-> work'.symbol_universe[j].stock_code]
    IN  /\ row'.symbol_rows = row.symbol_rows + 1
        /\ RowAt(keys, code) # 0
        /\ status' = "success"
        /\ raised' = NotRaised
        /\ IF idx < Len(symbols) THEN pc' = "symbols" /\ idx' = idx + 1
                                 ELSE Order(pc') > Order(pc)
        /\ failed => /\ Len(notes') > Len(notes)
                     /\ notes'[Len(notes) + 1]
                            = Note("symbol enrich failed", 0, 0, code, TransportMsg)
        /\ ~failed => \A i \in (Len(notes) + 1)..Len(notes') :
                          notes'[i].text # "symbol enrich failed"

\* C13: every step of the symbols stage upserts and counts its symbol and goes
\* on, with a note when the enrichment lookup raised and without making the run
\* failed; a run of the symbols category alone over explicit symbols returns 0
\* with status success whichever lookups raised.
C13_EnrichmentIsolated ==
    /\ [][(pc = "symbols") => SymbolsStepIsolated]_vars
    /\ []((pc = "returned" /\ args.run_type = "symbols" /\ args.scope = "single")
             => /\ exit_code = 0
                /\ PersistedStatus(disk, run_id) = "success"
                /\ row.symbol_rows = Len(symbols))

\* The lookup of the first of two symbols raised, the lookup of the second
\* answered: both are stored, the second enriched, and the run succeeded.
C13_Witness ==
    /\ pc = "returned"
    /\ tape.mode = "record"
    /\ args.run_type = "symbols"
    /\ Len(tape.log) = 2
    /\ tape.log[1].raises
    /\ ~tape.log[2].raises
    /\ notes = <<Note("symbol enrich failed", 0, 0, CodeA, TransportMsg)>>
    /\ Len(disk.symbol_universe) = 2
    /\ disk.symbol_universe[2].market = "KOSPI"
    /\ PersistedStatus(disk, run_id) = "success"

\* The margins stage of the current run is over.
MarginsRan ==
    /\ pc \in {"finalize", "returned"}
    /\ \E i \in 1..Len(notes) : notes[i].text = "margins"

\* The answers the margins stage drew, one per symbol it checked: the last entry
\* of the record of answers.
MarginAnswersDrawn == tape.log[Len(tape.log)]

\* The two-call check answered by ans did not give a margin rate.
CheckFailed(ans) ==
    \/ ans.a1.raises
    \/ ans.a1.rt_cd # "0"
    \/ ans.a2.raises
    \/ ans.a2.rt_cd # "0"

\* C14: once the margins stage of a run is over, no exception has left it, and
\* every resolved symbol has exactly one margin record for the run's as-of date,
\* with collection status failed when its two-call check raised or was answered
\* with a non-success code.
C14_MarginIsolation ==
    MarginsRan
        => /\ raised = NotRaised
           /\ \A s \in 1..Len(symbols) :
                LET rows == work.symbol_margin_policy
                    mine == { j \in 1..Len(rows) : /\ rows[j].stock_code = symbols[s].stock_code
                                                  /\ rows[j].as_of = MarginAsOf }
                IN  /\ Cardinality(mine) = 1
                    /\ (s <= Len(MarginAnswersDrawn) /\ CheckFailed(MarginAnswersDrawn[s]))
                          => \A j \in mine : rows[j].collection_status = "failed"

\* The rule on one margin record; rates are in tenths of a percent, 1000 is 100.0.
Classified(r) ==
    /\ (r.is_full_margin = 1) <=> (r.margin_rate_pct # NullRate /\ r.margin_rate_pct >= 1000)
    /\ r.margin_rate_pct = NullRate => (r.is_full_margin = 0 /\ r.collection_status = "failed")

\* C15: every margin record in the store, committed or not, has is_full_margin
\* set exactly when its margin rate is not null and at least 100.0, and a record
\* with a null rate is not full margin and has collection status failed.
C15_MarginClassification ==
    /\ \A j \in 1..Len(work.symbol_margin_policy) : Classified(work.symbol_margin_policy[j])
    /\ \A j \in 1..Len(disk.symbol_margin_policy) : Classified(disk.symbol_margin_policy[j])

\* A run stored a record with rate 100.0 as full margin and one with rate 99.9 as
\* not full margin.
C15_Witness ==
    /\ pc = "returned"
    /\ \E j \in 1..Len(disk.symbol_margin_policy) :
          /\ disk.symbol_margin_policy[j].margin_rate_pct = 1000
          /\ disk.symbol_margin_policy[j].is_full_margin = 1
    /\ \E j \in 1..Len(disk.symbol_margin_policy) :
          /\ disk.symbol_margin_policy[j].margin_rate_pct = 999
          /\ disk.symbol_margin_policy[j].is_full_margin = 0
          /\ disk.symbol_margin_policy[j].collection_status = "collected"

-----------------------------------------------------------------------------
(* Properties of derive_price_range and of the symbol arguments *)

\* The window the five rules give, the first that matches deciding.  An override
\* is a value that denotes a date, used in its 8-digit form; a lookback count is
\* supplied when the option was given, 0 included.
RangeByRule(a, sym) ==
    LET given(v) == v.k \in {"ymd", "iso"}
        side(v)  == IF given(v) THEN Ymd(v.d) ELSE NoDate
    IN  IF given(a.as_of_from) \/ given(a.as_of_to)
        THEN [date_from |-> side(a.as_of_from), date_to |-> side(a.as_of_to)]
        ELSE IF a.prices_lookback_days # NoDays
        THEN [date_from |-> Ymd(today - a.prices_lookback_days), date_to |-> Ymd(today)]
        ELSE IF a.prices_window = "fast"
        THEN [date_from |-> Ymd(today - 7), date_to |-> Ymd(today)]
        ELSE IF a.prices_window = "normal"
        THEN [date_from |-> Ymd(today - 30), date_to |-> Ymd(today)]
        ELSE IF a.prices_window = "full" \/ a.prices_backfill
        THEN [date_from |-> IF sym.listed_date # NoDate THEN sym.listed_date
                            ELSE Ymd(EpochFloor),
              date_to |-> Ymd(today)]
        ELSE [date_from |-> NoDate, date_to |-> NoDate]

\* C16: the window derive_price_range returns is the one the first matching of
\* the five rules gives: override, lookback count, window fast or normal, window
\* full or backfill, none.
C16_RangePrecedence ==
    pc = "derived" => fetch = RangeByRule(args, symbols[idx])

\* The digits of an input, in order.
DigitsOf(value) == SelectSeq(value, LAMBDA ch : ch \in Digits)

\* An input with 1 to 6 digits.
Normalizable(value) == Len(DigitsOf(value)) \in 1..6

\* The digits of a normalizable input after as many zeros as make 6 characters.
Padded(value) ==
    LET ds == DigitsOf(value)
        zeros == 6 - Len(ds)
    IN  [i \in 1..6 |-> IF i <= zeros THEN "0" ELSE ds[i - zeros]]

\* C17: the working set parsed from the --symbol values holds exactly the zero-
\* padded digits of the values with 1 to 6 digits, each once, in the order of the
\* values; a value with no digit or more than 6 contributes nothing and no error
\* is raised for it.
C17_SymbolNormalization ==
    pc = "parsed"
        => LET raws == args.symbol
           IN  /\ \A j \in 1..Len(symbols) :
                     \E i \in 1..Len(raws) : Normalizable(raws[i]) /\ symbols[j] = Padded(raws[i])
               /\ \A i \in 1..Len(raws) :
                     Normalizable(raws[i]) => \E j \in 1..Len(symbols) : symbols[j] = Padded(raws[i])
               /\ \A j, k \in 1..Len(symbols) : j < k => symbols[j] # symbols[k]
               /\ (Len(symbols) = 2 => symbols[1] = Padded(raws[1]))
               /\ raised = NotRaised
               /\ status = "success"

\* Of the values 7x0 and x, the first is kept as 000070 and the second dropped.
C17_Witness ==
    /\ pc = "parsed"
    /\ args.symbol = << <<"7", "x", "0">>, <<"x">> >>
    /\ symbols = << <<"0", "0", "0", "0", "7", "0">> >>

-----------------------------------------------------------------------------
(* Properties of the skipped categories and of symbol resolution *)

\* Category c is requested by a run that is not a dry run and has no client of
\* the quote provider (its key or its secret is absent).
RequestedWithoutClient(c) ==
    /\ c \in RUN_TYPE_TO_CATEGORIES(args.run_type)
    /\ ~args.dry_run
    /\ ~kis_client(args)

\* Category c issued no call, wrote no row and raised nothing.
Untouched(c) ==
    /\ \A i \in 1..Len(calls) : calls[i] # c
    /\ TableOf(work, Order(c)) = <<>>
    /\ TableOf(disk, Order(c)) = <<>>
    /\ raised.stage # c

\* The run was refused for a credential of the quote provider.
RefusedForQuoteCredential ==
    /\ pc = "returned"
    /\ exit_code = 3
    /\ \E i \in 1..Len(ensure_exported_env(args)) :
          ensure_exported_env(args)[i] \in {"KIS_APP_KEY", "KIS_APP_SECRET"}

SkipNoted(c) ==
    \E i \in 1..Len(notes) : notes[i] = Note("skipped", 0, 0, NoSymbol, c)

\* C18 as stated: when prices or financials is requested and there is no client of
\* the quote provider, the category issues no call and writes no row, the run is
\* not refused for the credential, and when it has returned its notes hold the
\* category's skip note.
C18_CredentialAbsentSkip ==
    \A c \in {"prices", "financials"} :
        RequestedWithoutClient(c)
            => /\ Untouched(c)
               /\ ~RefusedForQuoteCredential
               /\ pc = "returned" => SkipNoted(c)

\* C18 amended: the same under a source profile that excludes the quote provider,
\* the skip note being recorded in every run that got past symbol resolution;
\* such a run fails only by an exception of another stage.
C18_CredentialAbsentSkipProfileExcluded ==
    \A c \in {"prices", "financials"} :
        (RequestedWithoutClient(c) /\ args.source_profile \notin {"all", "kis"})
            => /\ Untouched(c)
               /\ ~RefusedForQuoteCredential
               /\ (pc = "returned" /\ exit_code # 3 /\ raised.stage # "resolve")
                     => /\ SkipNoted(c)
                        /\ PersistedRun(disk, run_id).notes_json = notes
                        /\ raised = NotRaised => exit_code = 0

\* A run of all categories under profile dart without the quote provider's key
\* and secret returned 0 with the skip notes of prices and financials.
C18_Witness ==
    /\ pc = "returned"
    /\ args.run_type = "all"
    /\ args.source_profile = "dart"
    /\ args.kis_app_key = ""
    /\ args.kis_app_secret = ""
    /\ exit_code = 0
    /\ SkipNoted("prices")
    /\ SkipNoted("financials")
    /\ Len(disk.symbol_universe) > 0

\* The disclosure provider's key is the only credential ensure_exported_env
\* misses, and it is not the events category that requires it.
OnlyScopeNeedsDisclosureKey ==
    /\ args.dart_api_key = ""
    /\ \A i \in 1..Len(ensure_exported_env(args)) : ensure_exported_env(args)[i] = "DART_API_KEY"
    /\ ~("events" \in RUN_TYPE_TO_CATEGORIES(args.run_type)
            /\ args.source_profile \in {"all", "dart"})

\* C19: an all-scope run that is not a dry run, lacks only the disclosure
\* provider's key and finds a symbol in the store is not refused: when it has
\* returned, symbol resolution has not failed and the working set is the stored
\* symbols.
C19_StoreFallback ==
    (/\ pc = "returned"
     /\ args.scope = "all"
     /\ ~args.dry_run
     /\ OnlyScopeNeedsDisclosureKey
     /\ Len(disk.symbol_universe) >= 1)
        => /\ exit_code # 3
           /\ raised.stage # "resolve"
           /\ Len(symbols) = Len(disk.symbol_universe)
           /\ \A i \in 1..Len(symbols) : symbols[i].stock_code = disk.symbol_universe[i].stock_code

\* C20: a single-scope run that is not a dry run and has no --symbol value that
\* normalizes returns exit code 3, having issued no provider call and written no
\* row of the five kinds.
C20_NoSymbolIsConfigurationError ==
    (/\ pc = "returned"
     /\ args.scope = "single"
     /\ ~args.dry_run
     /\ parse_symbols(args.symbol, <<>>) = <<>>)
        => /\ exit_code = 3
           /\ calls = <<>>
           /\ TotalRows(work) = 0
           /\ TotalRows(disk) = 0

-----------------------------------------------------------------------------
(* Properties of the symbol cap *)

\* The list resolve_symbols has before the cap, given the enumeration `ans`.
ResolvedList(ans) ==
    IF args.scope = "single"
    THEN LET user_symbols == parse_symbols(args.symbol, <<>>)
         IN  [ i \in 1..Len(user_symbols) |->
                 SymbolEntry(user_symbols[i], NULL, NULL, NULL, NoDate) ]
    ELSE fetch_dart_corp_codes(ans.nodes)

FirstN(list, n) == IF Len(list) > n THEN SubSeq(list, 1, n) ELSE list

\* The notes record that `n` entries were dropped by the cap.
DroppedNoted(ns, n) ==
    \E i \in 1..Len(ns) : ns[i].text = "limit_symbols applied" /\ ns[i].n = n

\* C21: whenever a positive cap N is configured, in either scope, the working
\* set symbol resolution leaves is the first N entries of the resolved list in
\* source order, and the run's notes record how many entries the cap dropped.
C21_SymbolCap ==
    [][ (pc = "resolve" /\ pc' # "resolve" /\ raised' = NotRaised /\ args.limit_symbols > 0)
        => \E ans \in { a \in CorpCodeAnswers \cup {NoAnswer} : ~a.raises } :
              /\ args.scope = "single" <=> ans = NoAnswer
              /\ symbols' = FirstN(ResolvedList(ans), args.limit_symbols)
              /\ DroppedNoted(notes', Len(ResolvedList(ans)) - Len(symbols')) ]_vars

-----------------------------------------------------------------------------
(* Properties of the resolved working set *)

\* The instrument codes the source of the run's scope yields, in source order:
\* the --symbol values that normalize, the nodes of the enumeration `ans` that
\* do, or the rows of the store.
RECURSIVE NormalizedCodes(_)
NormalizedCodes(raws) ==
    IF raws = <<>> THEN <<>>
    ELSE (IF normalize_symbol(Head(raws)) = NoSymbol THEN <<>>
          ELSE <<normalize_symbol(Head(raws))>>) \o NormalizedCodes(Tail(raws))

SourceCodes(ans) ==
    IF args.scope = "single" THEN NormalizedCodes(args.symbol)
    ELSE IF args.dart_api_key # ""
    THEN NormalizedCodes([ i \in 1..Len(ans.nodes) |-> ans.nodes[i].stock_code ])
    ELSE [ i \in 1..Len(work.symbol_universe) |-> work.symbol_universe[i].stock_code ]

\* The codes of a list, each kept at its first occurrence only.
RECURSIVE FirstOccurrences(_, _)
FirstOccurrences(codes, out) ==
    IF codes = <<>> THEN out
    ELSE FirstOccurrences(Tail(codes),
            IF \E i \in 1..Len(out) : out[i] = Head(codes) THEN out
            ELSE Append(out, Head(codes)))

IsPrefix(s, t) == Len(s) <= Len(t) /\ s = SubSeq(t, 1, Len(s))

\* C22: the working set symbol resolution leaves never holds the same
\* instrument code twice, whatever the scope and the source, and its codes are
\* in the order of their first occurrence in the source.
C22_WorkingSetDeduplicated ==
    [][ (pc = "resolve" /\ pc' # "resolve" /\ raised' = NotRaised)
        => \E ans \in { a \in CorpCodeAnswers \cup {NoAnswer} : ~a.raises } :
              /\ (args.scope # "single" /\ args.dart_api_key # "") <=> ans # NoAnswer
              /\ \A i, j \in 1..Len(symbols') :
                    symbols'[i].stock_code = symbols'[j].stock_code => i = j
              /\ IsPrefix([ i \in 1..Len(symbols') |-> symbols'[i].stock_code ],
                          FirstOccurrences(SourceCodes(ans), <<>>)) ]_vars

-----------------------------------------------------------------------------
(* Properties of category atomicity *)

\* The rows of table k that run rid wrote last.
RowsOfRun(conn, k, rid) ==
    { i \in 1..Len(TableOf(conn, k)) : TableOf(conn, k)[i].run_id = rid }

\* The categories whose rows carry a run identifier.
AttributedCategories == 2..Len(Stages)

\* C23: each category's writes become durable as one unit: the durable rows of
\* a category change in a step only when the run had no durable row of that
\* category before it, and after it every row the category wrote is durable; and
\* when run_ingest has returned after a category raised an exception, none of
\* that category's rows of the run is in the store.
C23_CategoryAtomicity ==
    /\ [][ \A k \in AttributedCategories :
              TableOf(disk', k) # TableOf(disk, k)
                  => /\ RowsOfRun(disk, k, run_id) = {}
                     /\ TableOf(disk', k) = TableOf(work', k) ]_vars
    /\ [](\A k \in AttributedCategories :
            (pc = "returned" /\ Order(raised.stage) = k)
                => RowsOfRun(disk, k, run_id) = {})

-----------------------------------------------------------------------------
(* Properties of the date sliding *)

\* A successful page with at least one dated row, every non-empty candle date
\* of it a valid 8-digit date.
DatedPage(ans) ==
    /\ ~ans.raises
    /\ ans.rt_cd = "0"
    /\ Dated(ans.output) # <<>>
    /\ \A i \in 1..Len(Dated(ans.output)) : Dated(ans.output)[i].stck_bsop_date.k = "ymd"

\* C24: the oldest date of a page is the minimum candle date among its rows
\* with a non-empty date, in whatever order the rows come: when that minimum is
\* strictly after `from`, the fetch goes on unless the page cap is reached, and
\* the upper bound of the next request is that minimum minus one day.
C24_OldestIsPageMinimum ==
    \A k \in 1..Len(fetch.answers) :
        (DatedPage(fetch.answers[k]) /\ OldestDay(fetch.answers[k].output) > fetch.from_date.d)
            => /\ k < Len(fetch.requests)
                    => fetch.requests[k + 1].to = Ymd(OldestDay(fetch.answers[k].output) - 1)
               /\ k = Len(fetch.requests)
                    => /\ fetch.current_to = Ymd(OldestDay(fetch.answers[k].output) - 1)
                       /\ fetch.st = "loop" <=> k < fetch.max_pages


\* C25: the fetch issues no request after a page whose oldest candle date is not
\* strictly earlier than the oldest candle date of the page before it, and the
\* upper date bound strictly shrinks from each request to the next, whatever
\* the provider answers.
C25_StopsOnNonDecreasingOldest ==
    /\ \A k \in 2..Len(fetch.answers) :
          ( /\ DatedPage(fetch.answers[k - 1])
            /\ DatedPage(fetch.answers[k])
            /\ OldestDay(fetch.answers[k].output) >= OldestDay(fetch.answers[k - 1].output) )
              => (Len(fetch.requests) = k /\ fetch.st # "loop")
    /\ \A k \in 1..(Len(fetch.requests) - 1) :
          fetch.requests[k + 1].to.d < fetch.requests[k].to.d

-----------------------------------------------------------------------------
(* Properties of the source profile *)

\* The categories served by the quote provider, and the stages calling it.
QuoteCategories == {"prices", "financials", "margins"}

QuoteStages == QuoteCategories \cup {"symbols"}

\* The notes hold a skip note of category c.
AnySkipNoted(c) ==
    \E i \in 1..Len(notes) :
        /\ notes[i].text = "skipped"
        /\ notes[i].detail = c \/ (c = "margins" /\ notes[i].detail = "margins: source_profile")

\* C26: in a run whose source profile excludes the quote provider, with or
\* without its credentials, no stage issues a quote-provider call; prices,
\* financials and margins write no row and raise nothing; and when the run has
\* returned without an exception before the category's turn, each of them that
\* was requested has its skip note in the notes.
C26_ProfileExcludedSkip ==
    (args.source_profile \notin {"all", "kis"} /\ ~args.dry_run)
        => /\ \A i \in 1..Len(calls) : calls[i] \notin QuoteStages
           /\ \A c \in QuoteCategories :
                 /\ TableOf(work, Order(c)) = <<>>
                 /\ raised.stage # c
                 /\ ( /\ c \in RUN_TYPE_TO_CATEGORIES(args.run_type)
                      /\ pc = "returned" /\ exit_code # 3
                      /\ raised = NotRaised \/ Order(raised.stage) > Order(c) )
                       => AnySkipNoted(c)

-----------------------------------------------------------------------------
(* Properties of all-scope resolution *)

\* How many entries the enumeration yielded, as the notes record it; 0 when
\* the enumeration was not made or did not return.
EnumeratedCount(ns) ==
    IF \E i \in 1..Len(ns) : ns[i].text = "all scope symbols resolved" /\ ns[i].detail = "DART corpCode"
    THEN ns[CHOOSE i \in 1..Len(ns) : ns[i].text = "all scope symbols resolved"].n
    ELSE 0

StoredCodes(conn) == [ i \in 1..Len(conn.symbol_universe) |-> conn.symbol_universe[i].stock_code ]

\* C27: all-scope symbol resolution fails exactly when neither the enumeration
\* nor the store yields an entry; with the credential, an empty enumeration and
\* a non-empty store it does not fail and the working set is the stored symbols.
C27_AllScopeFailsIffNoSource ==
    [][ (pc = "resolve" /\ pc' # "resolve" /\ args.scope = "all")
        => /\ raised'.stage = "resolve"
                <=> (EnumeratedCount(notes') = 0 /\ work.symbol_universe = <<>>)
           /\ (EnumeratedCount(notes') = 0 /\ work.symbol_universe # <<>>)
                => [ i \in 1..Len(symbols') |-> symbols'[i].stock_code ] = StoredCodes(work) ]_vars

-----------------------------------------------------------------------------
(* Properties of run attribution *)

\* Row r carries the identifier of run rid.
CarriesRun(r, rid) == "run_id" \in DOMAIN r /\ r.run_id = rid

\* Every row of the kinds `kinds` that the step inserted or changed carries the
\* identifier of the run whose connection wrote it.
WrittenRowsAttributed(kinds) ==
    \A k \in kinds :
        \A i \in 1..Len(TableOf(work', k)) :
            (i > Len(TableOf(work, k)) \/ TableOf(work', k)[i] # TableOf(work, k)[i])
                => CarriesRun(TableOf(work', k)[i], writer')

\* C28 as stated: a row of any of the five kinds, symbol entries included,
\* carries the identifier of the run that last wrote it, inserted or updated.
C28_EveryRowAttributed == [][WrittenRowsAttributed(1..Len(Stages))]_vars

\* C28 amended: the same for price candles, fundamental items, events and margin
\* records; a symbol entry has no run identifier.
C28_KeyedRowsAttributed ==
    [][ /\ WrittenRowsAttributed(AttributedCategories)
        /\ \A i \in 1..Len(work'.symbol_universe) :
              "run_id" \notin DOMAIN work'.symbol_universe[i] ]_vars

\* A row committed by run 1 has been updated by run 2 and carries 2.
C28_Witness ==
    \E k \in AttributedCategories :
        \E i \in 1..Len(TableOf(disk, k)) :
            /\ TableOf(disk, k)[i].run_id = 1
            /\ TableOf(work, k)[i].run_id = 2
            /\ writer = 2

-----------------------------------------------------------------------------
(* Properties of the overwrite on conflict *)

\* The rows an upsert of run rid writes for each incoming record of kind k when
\* every field of the stored row is taken from the record: the row the upsert
\* inserts into an empty table.
InsertedTables(k, rid) ==
    CASE k = 2 -> { upsert_price(EmptyStore, rid, p, NoDate).raw_price_ohlcv :
                      p \in { q \in StorePriceRows : ~upsert_price_raises(q) } }
      [] k = 3 -> { upsert_fundamental(EmptyStore, rid, f).raw_fundamental_statement :
                      f \in StoreFundamentalRows }
      [] k = 4 -> { upsert_event(EmptyStore, rid, CodeA, e).raw_event_feed : e \in StoreEventRows }
      [] k = 5 -> { upsert_margin_policy(EmptyStore, rid, CodeA, a, m).symbol_margin_policy :
                      a \in {Iso(4), Iso(5)}, m \in StoreMarginItems }

IncomingRows(k, rid) == { t[1] : t \in { u \in InsertedTables(k, rid) : u # <<>> } }

-----------------------------------------------------------------------------
(* Properties of the run record *)

\* run_ingest has returned from its finalization.
Finalized == pc = "returned" /\ exit_code # 3 /\ ~args.dry_run

\* C30: once a run is finalized, the record read back from the store agrees
\* with the returned payload on status, symbols count, processed-symbols count,
\* the five row counts, the ordered notes and the error message.
C30_PersistedRunAgreesWithPayload ==
    Finalized
        => /\ get_status(disk, run_id).ok
           /\ get_status(disk, run_id).status = payload.status
           /\ get_status(disk, run_id).symbols_count = payload.symbols_count
           /\ get_status(disk, run_id).processed_symbols = payload.processed_symbols
           /\ get_status(disk, run_id).row_counts = payload.row_counts
           /\ get_status(disk, run_id).notes = payload.notes
           /\ get_status(disk, run_id).error = payload.error

-----------------------------------------------------------------------------
(* Properties of the run counters *)

\* The row counter of category k in a run record.
CounterOf(r, k) ==
    <<r.symbol_rows, r.price_rows, r.fundamental_rows, r.event_rows, r.margin_rows>>[k]

\* C31: once a category has committed its writes and the run has moved on to a
\* later category, the persisted run record, still in status running, already
\* holds in that category's counter the number of rows the category upserted.
C31_RunRecordFollowsCommits ==
    \A k \in 1..Len(Stages) :
        ( /\ pc \in {"prices", "financials", "events", "margins"}
          /\ Order(pc) > k
          /\ PersistedStatus(disk, run_id) = "running" )
            => CounterOf(PersistedRun(disk, run_id), k) = CounterOf(row, k)


\* The counters of the local run record: five row counters and processed_symbols.
Counters(r) ==
    <<r.symbol_rows, r.price_rows, r.fundamental_rows, r.event_rows, r.margin_rows,
      r.processed_symbols>>

\* The category during whose execution counter c may change: the row counter's
\* own category, and the prices category for processed_symbols.
CategoryOfCounter(c) == IF c = 6 THEN "prices" ELSE Stages[c]

\* C32: the row counters and the processed-symbols counter of a run are 0 when
\* the run record is created, never decrease afterwards, and change only in a
\* step of their own category; the row counters of the persisted record never
\* decrease either.
C32_CountersMonotonic ==
    /\ [][ (row = <<>> /\ row' # <<>>) => \A c \in 1..6 : Counters(row')[c] = 0 ]_vars
    /\ [][ (row # <<>> /\ row' # <<>>)
            => \A c \in 1..6 :
                  /\ Counters(row')[c] >= Counters(row)[c]
                  /\ Counters(row')[c] # Counters(row)[c] => pc = CategoryOfCounter(c) ]_vars
    /\ [][ row # <<>> => row' # <<>> ]_vars
    /\ [][ PersistedStatus(disk, run_id) # "absent"
            => \A k \in 1..Len(Stages) :
                  CounterOf(PersistedRun(disk', run_id), k) >= CounterOf(PersistedRun(disk, run_id), k) ]_vars

\* A run of all categories has returned with the price counter and the
\* processed-symbols counter raised by the prices stage and the margin counter
\* by the margins stage.
C32_Witness ==
    /\ pc = "returned"
    /\ row # <<>>
    /\ row.price_rows >= 2
    /\ row.processed_symbols >= 1
    /\ row.margin_rows >= 1
    /\ row.symbol_rows >= 1

-----------------------------------------------------------------------------
(* Properties of the unbounded price range *)

\* derive_price_range yields (None, None) for the run's symbol.
RangeUnbounded == derive_price_range(args, symbols[idx]) = [from |-> NoDate, to |-> NoDate]

-----------------------------------------------------------------------------
(* Properties of the db-check counts *)

\* db_check: the number of rows of table k whose run_id is rid.
db_check(conn, k, rid) == Cardinality(RowsOfRun(conn, k, rid))

\* The records of finalized runs in the store.
FinalizedRuns(conn) ==
    { i \in 1..Len(conn.ingest_runs) : conn.ingest_runs[i].status \in {"success", "failed"} }

\* C34: for every finalized run in the store and each of price candles,
\* fundamental items, events and margin records, the run's persisted row counter
\* is at least the number of store rows carrying the run's identifier.
C34_CounterCoversDbCheck ==
    \A i \in FinalizedRuns(disk) :
        \A k \in AttributedCategories :
            CounterOf(disk.ingest_runs[i], k) >= db_check(disk, k, disk.ingest_runs[i].run_id)

\* The first run is finalized with a price counter strictly greater than its
\* db-check count, which is not 0: a counted candle left no row of its own.
C34_Witness ==
    /\ pc = "returned"
    /\ run_id = 1
    /\ 1 \in FinalizedRuns(disk)
    /\ db_check(disk, 2, 1) >= 1
    /\ CounterOf(disk.ingest_runs[1], 2) > db_check(disk, 2, 1)

-----------------------------------------------------------------------------
(* Properties of the events category in single scope *)

\* C35: in a single-scope run, whatever credentials are present, no symbol of
\* the working set carries a corporate identifier, the events category issues
\* no event fetch and writes no event row, and the event counter stays 0.
C35_SingleScopeHasNoEvents ==
    args.scope = "single"
        => /\ \A i \in 1..Len(symbols) : symbols[i].dart_corp_code = NULL
           /\ \A i \in 1..Len(calls) : calls[i] # "events"
           /\ work.raw_event_feed = <<>>
           /\ disk.raw_event_feed = <<>>
           /\ row # <<>> => row.event_rows = 0
           /\ raised.stage # "events"

\* A single-scope run with every credential went through the symbols stage,
\* which enriched its symbol, and through the events stage, and returned 0.
C35_Witness ==
    /\ pc = "returned"
    /\ exit_code = 0
    /\ args.scope = "single"
    /\ args.run_type = "all"
    /\ args.dart_api_key # ""
    /\ ~args.dry_run
    /\ Len(symbols) = 2
    /\ symbols[1].name # NULL
    /\ \A i \in 1..Len(notes) : notes[i].text # "skipped"
    /\ row.event_rows = 0
    /\ row.symbol_rows = 2

=============================================================================
